---- MODULE Spec2Model ----
(***************************************************************************)
(* Low-latency internode dispatch / combine kernels of                     *)
(* csrc/kernels/internode_ll.cu, as a state machine over all ranks.        *)
(*                                                                         *)
(* One rank = one kernel grid with one block per global expert.  A rank    *)
(* runs its dispatch calls one after the other (one entry of cfg.calls     *)
(* per launch), then, when cfg.run_combine, its combine launches.          *)
(* Ranks only interact through the symmetric buffers rdma_recv_x,          *)
(* rdma_recv_count, rdma_recv_flag and combine_recv_x, and through the     *)
(* collective reduction of fp32_workspace.                                 *)
(***************************************************************************)
EXTENDS Integers, Sequences, FiniteSets, TLC

VARIABLES
    cfg,                        \* launch parameters, the same on every rank
    topk_idx,                   \* [rank][token][topk_offset] -> expert or -1
    num_recv_tokens_per_rank,   \* [rank] -> int (kernel parameter)
    stage,                      \* [rank] -> position of the grid
    call_idx,                   \* [rank] -> index of the running dispatch call
    block_pc,                   \* [rank][block] -> position of the block in the stage
    sync_info_zeroed,           \* [rank] -> block 0 has run its memset in this call
    sent,                       \* [rank] -> top-k entries <<token, offset>> that reserved a slot in this call
    fatal,                      \* [rank] -> failed assertion, "none" when there is none
    atomic_counter_per_expert,  \* [rank][expert * num_ranks + src_rank]
    rdma_recv_x,                \* [rank][(l * R + s) * S + slot] -> message
    rdma_recv_count,            \* [rank][l * R + s]
    packed_recv_x,              \* [rank][(l * R + s) * S + slot] -> payload
    packed_recv_src_info,       \* [rank][(l * R + s) * S + slot] -> source token index
    packed_recv_layout_range,   \* [rank][l * R + s] -> pack2(num, begin)
    packed_recv_count,          \* [rank][l * R + s]
    num_recv_tokens,            \* [rank][block] -> decoded count of the block's pair
    recv_token_begin_idx,       \* [rank][block] -> begin of the block's reservation
    expert_sync_info_buffer,    \* [rank][expert] -> ExpertSyncInfo
    atomic_clean_flag,          \* [rank]
    rdma_recv_flag,             \* [rank][local expert]
    clean_args,                 \* [rank] -> arguments of the cleaner calls of the rank
    clean_pc,                   \* [rank] -> position of the rank in its cleaner call
    clean_run,                  \* [rank] -> number of the running cleaner call
    clean_todo,                 \* [rank] -> regions the kernel has still to zero
    clean_mem,                  \* [rank][0 or 1][i] -> int of scratch region clean_0 / clean_1
    clean_sync,                 \* [rank][expert] -> ExpertSyncInfo slot given to the cleaner
    clean_arrived,              \* [rank] -> world barriers the rank has entered
    clean_once,                 \* [rank] -> memory of the rank after its first cleaner call
    host_call,                  \* the host wrapper that is called and its arguments
    host_outcome,               \* "pending", "rejected" (failed host assertion) or "launched"
    ibgda_qp,                   \* [<<src rank, dst rank, qp>>] -> operations posted and not yet delivered
    combine_calls,              \* [rank] -> phases of the combine launches of the rank, <<>> before the first
    combine_idx,                \* [rank] -> number of combine launches the rank has finished
    topk_weights,               \* [rank][token][topk_offset] -> weight passed to combine
    combine_recv_x,             \* [rank][(l * R + s) * S + slot] -> message of the combine receive buffer
    fp32_workspace,             \* [rank][token] -> FP32 partial of the token
    combined_x,                 \* [rank][token] -> output of combine
    reduce_idx,                 \* [rank] -> token block 0 reduces next
    reduce_entered,             \* [rank] -> block 0 is inside nvshmemx_float_sum_reduce_block
    reduce_calls,               \* [rank] -> calls of nvshmemx_float_sum_reduce_block so far
    grid_syncs,                 \* [rank] -> per launch of the rank's stream, the grid-wide syncs passed
    shared_num_topk,            \* [rank][block] -> num_topk as the threads of the block read it back
    diagnostics,                \* [rank] -> messages the combine kernel has printed
    flag_posts                  \* [rank][block] -> finishing flags the block has posted in this launch

vars == <<cfg, topk_idx, num_recv_tokens_per_rank, stage, call_idx, block_pc,
          sync_info_zeroed, sent, fatal, atomic_counter_per_expert, rdma_recv_x,
          rdma_recv_count, packed_recv_x, packed_recv_src_info,
          packed_recv_layout_range, packed_recv_count, num_recv_tokens,
          recv_token_begin_idx, expert_sync_info_buffer,
          atomic_clean_flag, rdma_recv_flag,
          clean_args, clean_pc, clean_run, clean_todo, clean_mem, clean_sync,
          clean_arrived, clean_once, host_call, host_outcome, ibgda_qp,
          combine_calls, combine_idx, topk_weights, combine_recv_x,
          fp32_workspace, combined_x, reduce_idx, reduce_entered, reduce_calls,
          grid_syncs, shared_num_topk, diagnostics, flag_posts>>

\* the state of a call of a host wrapper
host_vars == <<host_call, host_outcome>>

\* the state of the cleaner
cleaner_vars == <<clean_args, clean_pc, clean_run, clean_todo, clean_mem,
                  clean_sync, clean_arrived, clean_once>>

inputs == <<cfg, topk_idx, num_recv_tokens_per_rank>>

\* the state of the combine launches
combine_vars == <<combine_calls, combine_idx, topk_weights, combine_recv_x,
                  fp32_workspace, combined_x, reduce_idx, reduce_entered, reduce_calls,
                  shared_num_topk, diagnostics, flag_posts>>

(***************************************************************************)
(* Bounds of the enumerated input families.                                *)
(***************************************************************************)
MaxTokens == 3
MaxSlots == 2

(***************************************************************************)
(* Program constants.                                                      *)
(***************************************************************************)
LOW_LATENCY_SEND_PHASE == 1
LOW_LATENCY_RECV_PHASE == 2

\* (phases & mask) != 0 for a one-bit mask
HasPhase(phases, mask) == (phases \div mask) % 2 = 1

\* pack2<int, int64_t>(x, y): the two 32-bit words of the packed int64,
\* x in the low word and y in the high word
pack2(x, y) == <<x, y>>
unpack2_x(packed) == packed[1]
unpack2_y(packed) == packed[2]

(***************************************************************************)
(* Derived launch quantities.                                              *)
(***************************************************************************)
num_ranks == cfg.num_ranks
num_experts == cfg.num_experts
num_topk == cfg.num_topk
num_tokens == cfg.num_tokens
num_max_dispatch_tokens_per_rank == cfg.num_max_dispatch_tokens_per_rank
num_local_experts == num_experts \div num_ranks

is_pure_ep_mode == num_ranks = num_experts \div num_local_experts

Ranks == 0 .. (num_ranks - 1)
Blocks == 0 .. (num_experts - 1)
Tokens == 0 .. (num_tokens - 1)
TopkOffsets == 0 .. (num_topk - 1)
LocalExperts == 0 .. (num_local_experts - 1)
PairIdx == 0 .. (num_local_experts * num_ranks - 1)
QpIds == 0 .. num_local_experts
SlotIdx == 0 .. (num_local_experts * num_ranks * num_max_dispatch_tokens_per_rank - 1)

\* offset, in messages, of slot slot_idx of the section of pair (local expert, source rank)
MsgOffset(local_expert_idx, src_rank, slot_idx) ==
    local_expert_idx * num_ranks * num_max_dispatch_tokens_per_rank
        + src_rank * num_max_dispatch_tokens_per_rank + slot_idx

\* the payload of token token_idx of rank r (0 is the content of a zeroed buffer)
XData(r, token_idx) ==
    1 + (IF cfg.full_batch THEN token_idx ELSE r * num_tokens + token_idx)

ZeroMsg == [src_idx |-> 0, data |-> 0]

\* what a buffer that combine has not written yet holds: fp32_workspace and
\* combined_x keep the values of earlier steps
StaleValue == 7

ZeroSyncInfo ==
    [expected_tokens_per_rank |-> [s \in Ranks |-> 0],
     received_tokens_per_rank |-> [s \in Ranks |-> 0],
     total_expected_tokens |-> 0,
     total_received_tokens |-> 0,
     expert_processing_complete |-> 0]

(***************************************************************************)
(* Inputs.  A family enumerates every top-k table of its shape; a scenario *)
(* fixes the table.  Top-k lists hold distinct experts, as top-k routing   *)
(* produces them.  With full_batch every rank holds the same batch (the    *)
(* data layout of Pure EP); without it the ranks hold disjoint tokens,     *)
(* indexed from 0 on each rank.                                            *)
(***************************************************************************)
Config(family, R, E, K, T, S, full, calls, comb) ==
    [family |-> family, num_ranks |-> R, num_experts |-> E, num_topk |-> K,
     num_tokens |-> T, num_max_dispatch_tokens_per_rank |-> S,
     full_batch |-> full, calls |-> calls, run_combine |-> comb]

SEND_RECV == LOW_LATENCY_SEND_PHASE + LOW_LATENCY_RECV_PHASE

Configs ==
    \* one rank, two local experts: slot ranges, capacity, repeated calls
    { Config("one_rank", 1, 2, 1, MaxTokens, MaxSlots, TRUE, calls, TRUE) :
        calls \in { <<SEND_RECV>>,
                    <<LOW_LATENCY_SEND_PHASE, LOW_LATENCY_RECV_PHASE>>,
                    <<LOW_LATENCY_SEND_PHASE, LOW_LATENCY_SEND_PHASE,
                      LOW_LATENCY_RECV_PHASE, LOW_LATENCY_RECV_PHASE>>,
                    <<LOW_LATENCY_RECV_PHASE>> } }
    \cup
    \* two ranks, one local expert each, disjoint batches
    { Config("two_ranks", 2, 2, 1, 2, MaxSlots, FALSE, <<SEND_RECV>>, TRUE) }
    \cup
    \* two ranks, full batch on both, two top-k entries per token
    { Config("top2", 2, 2, 2, 2, MaxSlots, TRUE, <<SEND_RECV>>, FALSE) }
    \cup
    { Config("S1", 2, 4, 1, 2, 4, FALSE, <<SEND_RECV>>, FALSE),
      Config("dead_sender", 2, 2, 1, 3, 1, FALSE, <<SEND_RECV>>, FALSE) }

\* the inputs of the send loops alone: scenario S4 (four ranks, full batch,
\* token 5 routed to expert 2) and the full-batch families
SendPhaseConfigs ==
    { Config("S4", 4, 4, 1, 6, MaxSlots, TRUE, <<LOW_LATENCY_SEND_PHASE>>, FALSE) }
    \cup { c \in Configs : c.full_batch /\ c.calls = <<SEND_RECV>> }

RanksOf(c) == 0 .. (c.num_ranks - 1)
TokensOf(c) == 0 .. (c.num_tokens - 1)
OffsetsOf(c) == 0 .. (c.num_topk - 1)

DistinctExperts(c, list) ==
    \A i, j \in OffsetsOf(c) : (i # j /\ list[i] >= 0) => list[i] # list[j]

TopkInputs(c) ==
    CASE c.family = "S1" ->
           { [r \in RanksOf(c) |-> [t \in TokensOf(c) |-> [k \in OffsetsOf(c) |->
                IF r = 0 THEN (IF t = 0 THEN 2 ELSE 3)
                         ELSE (IF t = 0 THEN 2 ELSE 0)]]] }
      [] c.family = "S4" ->
           { [r \in RanksOf(c) |-> [t \in TokensOf(c) |-> [k \in OffsetsOf(c) |->
                IF t = 5 THEN 2 ELSE -1]]] }
      [] c.family = "ibgda" ->
           { [r \in RanksOf(c) |-> [t \in TokensOf(c) |-> [k \in OffsetsOf(c) |->
                IF t = 1 THEN e ELSE 1]]] : e \in -1 .. 1 }
      [] c.family = "returning" ->
           { [r \in RanksOf(c) |-> [t \in TokensOf(c) |-> [k \in OffsetsOf(c) |->
                IF t = 1 THEN 0 ELSE 1]]] }
      [] c.family = "corrupt" ->
           { [r \in RanksOf(c) |-> [t \in TokensOf(c) |-> [k \in OffsetsOf(c) |->
                IF t = 0 THEN k ELSE (IF k = 0 THEN 1 ELSE -1)]]] }
      [] c.family = "dead_sender" ->
           { [r \in RanksOf(c) |-> [t \in TokensOf(c) |-> [k \in OffsetsOf(c) |->
                IF r = 0 THEN 1 ELSE -1]]] }
      [] OTHER ->
           LET Lists == { l \in [OffsetsOf(c) -> -1 .. (c.num_experts - 1)] :
                            DistinctExperts(c, l) }
               Batches == [TokensOf(c) -> Lists]
           IN  IF c.full_batch
                 THEN { [r \in RanksOf(c) |-> b] : b \in Batches }
                 ELSE [RanksOf(c) -> Batches]

\* number of top-k entries, over all ranks, routed to an expert of rank r
NumRouted(r) ==
    Cardinality({ e \in Ranks \X Tokens \X TopkOffsets :
                    /\ topk_idx[e[1]][e[2]][e[3]] >= 0
                    /\ topk_idx[e[1]][e[2]][e[3]] \div num_local_experts = r })

\* the caller passes a positive count for a rank that tokens are routed to;
\* for a rank that none is routed to, the families try both 0 and 1
NumRecvInputs ==
    { [r \in Ranks |-> IF NumRouted(r) > 0 THEN NumRouted(r) ELSE idle[r]] :
        idle \in { f \in [Ranks -> 0 .. 1] :
                     \A r \in Ranks :
                        f[r] = 1 => /\ NumRouted(r) = 0
                                    /\ cfg.family \in {"one_rank", "two_ranks"} } }

(***************************************************************************)
(* Position of a grid.                                                     *)
(***************************************************************************)
phases(r) == cfg.calls[call_idx[r]]

should_process(r) == num_recv_tokens_per_rank[r] > 0

\* variant of the receive label that goes to the copy loop without the wait
RecvEntry_drain(r) == [b \in Blocks |-> IF should_process(r) THEN "drain" ELSE "done"]

\* the blocks of rank r at the receive label: a block of a rank that does
\* not process falls through to the kernel exit
RecvEntry(r) == [b \in Blocks |-> IF should_process(r) THEN "poll" ELSE "done"]

\* the callers of these families run the cleaner between two dispatch
\* iterations; the second passes the count buffer to the cleaner as well
IterationFamilies == {"iterations", "iterations_counts"}

\* the stage in which the kernel of a dispatch launch with these phases starts
StageOfPhases(launch_phases) ==
    IF HasPhase(launch_phases, LOW_LATENCY_SEND_PHASE) THEN "send" ELSE "recv"

\* the stage in which rank r starts its launch number idx
StageOfCall(idx) ==
    IF idx > Len(cfg.calls)
      THEN (IF cfg.run_combine THEN "combine_host" ELSE "exit")
      ELSE IF idx > 1 /\ cfg.family \in IterationFamilies THEN "clean"
      ELSE StageOfPhases(cfg.calls[idx])

PcOfCall(r, idx) ==
    CASE StageOfCall(idx) = "recv" -> RecvEntry(r)
      [] StageOfCall(idx) = "combine_host" -> [b \in Blocks |-> "done"]
      [] OTHER -> [b \in Blocks |-> "run"]

\* the launch of rank r returns: the next launch of its stream starts
Return(r) ==
    LET idx == call_idx[r] + 1 IN
    /\ call_idx' = [call_idx EXCEPT ![r] = idx]
    /\ stage' = [stage EXCEPT ![r] = StageOfCall(idx)]
    /\ block_pc' = [block_pc EXCEPT ![r] = PcOfCall(r, idx)]
    /\ sync_info_zeroed' = [sync_info_zeroed EXCEPT ![r] = idx > Len(cfg.calls)]
    /\ sent' = [sent EXCEPT ![r] = IF idx > Len(cfg.calls) THEN @ ELSE {}]

\* variant that counts the syncs of a stretch of the kernel as one
GridSynced_once(r, n) == [grid_syncs[r] EXCEPT ![Len(grid_syncs[r])] = @ + 1]

\* the launch of rank r has passed n more grid-wide syncs
\* (cg::this_grid().sync())
GridSynced(r, n) == [grid_syncs[r] EXCEPT ![Len(grid_syncs[r])] = @ + n]

\* the syncs of a stream whose launch returns with the counts s: launch idx of
\* dispatch, when there is one, starts with none
Relaunched(s, idx) == IF idx > Len(cfg.calls) THEN s ELSE Append(s, 0)

\* a device assertion fails: the launch of rank r is aborted
Abort(r, why) ==
    /\ stage' = [stage EXCEPT ![r] = "fatal"]
    /\ fatal' = [fatal EXCEPT ![r] = why]

InitOf(configs) ==
    /\ cfg \in configs
    /\ topk_idx \in TopkInputs(cfg)
    /\ num_recv_tokens_per_rank \in NumRecvInputs
    /\ call_idx = [r \in Ranks |-> 1]
    /\ stage = [r \in Ranks |-> StageOfCall(1)]
    /\ block_pc = [r \in Ranks |-> PcOfCall(r, 1)]
    /\ sync_info_zeroed = [r \in Ranks |-> FALSE]
    /\ sent = [r \in Ranks |-> {}]
    /\ fatal = [r \in Ranks |-> "none"]
    /\ atomic_counter_per_expert = [r \in Ranks |-> [i \in 0 .. (num_experts * num_ranks - 1) |-> 0]]
    /\ rdma_recv_x = [r \in Ranks |-> [i \in SlotIdx |-> ZeroMsg]]
    /\ rdma_recv_count = [r \in Ranks |-> [i \in PairIdx |-> 0]]
    /\ packed_recv_x = [r \in Ranks |-> [i \in SlotIdx |-> 0]]
    /\ packed_recv_src_info = [r \in Ranks |-> [i \in SlotIdx |-> 0]]
    /\ packed_recv_layout_range = [r \in Ranks |-> [i \in PairIdx |-> pack2(0, 0)]]
    /\ packed_recv_count = [r \in Ranks |-> [i \in PairIdx |-> 0]]
    /\ num_recv_tokens = [r \in Ranks |-> [b \in Blocks |-> 0]]
    /\ recv_token_begin_idx = [r \in Ranks |-> [b \in Blocks |-> 0]]
    /\ expert_sync_info_buffer = [r \in Ranks |-> [e \in Blocks |-> ZeroSyncInfo]]
    /\ atomic_clean_flag = [r \in Ranks |-> 0]
    /\ rdma_recv_flag = [r \in Ranks |-> [l \in LocalExperts |-> 0]]
    /\ ibgda_qp = [q \in Ranks \X Ranks \X QpIds |-> <<>>]
    /\ combine_calls = [r \in Ranks |-> <<>>]
    /\ combine_idx = [r \in Ranks |-> 0]
    /\ topk_weights = [r \in Ranks |-> [t \in Tokens |-> [k \in TopkOffsets |-> 0]]]
    /\ combine_recv_x = [r \in Ranks |-> [i \in SlotIdx |-> ZeroMsg]]
    /\ fp32_workspace = [r \in Ranks |-> [t \in Tokens |-> StaleValue]]
    /\ combined_x = [r \in Ranks |-> [t \in Tokens |-> StaleValue]]
    /\ reduce_idx = [r \in Ranks |-> 0]
    /\ reduce_entered = [r \in Ranks |-> FALSE]
    /\ reduce_calls = [r \in Ranks |-> 0]
    /\ grid_syncs = [r \in Ranks |-> <<0>>]
    /\ shared_num_topk = [r \in Ranks |-> [b \in Blocks |-> num_topk]]
    /\ diagnostics = [r \in Ranks |-> {}]
    /\ flag_posts = [r \in Ranks |-> [b \in Blocks |-> 0]]

(***************************************************************************)
(* Transport.  A remote access goes through a P2P mapping when             *)
(* nvshmemi_get_p2p_ptr returns one, and through an IBGDA queue pair       *)
(* otherwise.  A queue pair delivers its operations in the order they were *)
(* posted; queue pairs are independent of each other.                      *)
(***************************************************************************)
\* nvshmemi_get_p2p_ptr(...) != 0: a rank reaches itself directly, and the
\* other ranks unless the launch is on the "ibgda" fabric
HasP2P(src_rank, dst_rank) == src_rank = dst_rank \/ cfg.family # "ibgda"

\* the queue pair of the message puts for a local expert of the destination
PutQp(dst_expert_local_idx) == dst_expert_local_idx

\* variant of the count send on the queue pair next to the one of the puts
CountQp_next(dst_expert_local_idx) == dst_expert_local_idx + 1

\* the queue pair of the count send for a local expert of the destination
CountQp(dst_expert_local_idx) == dst_expert_local_idx

PutOp(offset, msg) == [op |-> "put", offset |-> offset, value |-> msg]
AmoOp(offset, value) == [op |-> "amo", offset |-> offset, value |-> value]

\* a count for entry offset of rank dst_rank is posted by src_rank and not delivered
CountInFlight(src_rank, dst_rank, offset) ==
    \E qp \in QpIds : \E i \in DOMAIN ibgda_qp[<<src_rank, dst_rank, qp>>] :
        LET o == ibgda_qp[<<src_rank, dst_rank, qp>>][i]
        IN  o.op = "amo" /\ o.offset = offset

\* the oldest operation of a queue pair reaches the memory of the destination
IbgdaDeliver(src_rank, dst_rank, qp) ==
    LET queue == ibgda_qp[<<src_rank, dst_rank, qp>>]
        o == Head(queue)
    IN
    /\ queue # <<>>
    /\ ibgda_qp' = [ibgda_qp EXCEPT ![<<src_rank, dst_rank, qp>>] = Tail(queue)]
    /\ IF o.op = "put"
         THEN /\ rdma_recv_x' = [rdma_recv_x EXCEPT ![dst_rank][o.offset] = o.value]
              /\ UNCHANGED rdma_recv_count
         ELSE /\ rdma_recv_count' = [rdma_recv_count EXCEPT ![dst_rank][o.offset] = @ + o.value]
              /\ UNCHANGED rdma_recv_x
    /\ UNCHANGED <<inputs, host_vars, cleaner_vars, grid_syncs, combine_vars, stage, call_idx, block_pc,
                   sync_info_zeroed, sent, fatal, atomic_counter_per_expert,
                   packed_recv_x, packed_recv_src_info, packed_recv_layout_range,
                   packed_recv_count, num_recv_tokens, recv_token_begin_idx,
                   expert_sync_info_buffer, atomic_clean_flag, rdma_recv_flag>>

(***************************************************************************)
(* dispatch: start of the kernel.                                          *)
(***************************************************************************)
\* expert_sync_info_buffer != nullptr: the callers of the "flag_only" family
\* pass no ExpertSyncInfo buffer
HasSyncInfo == cfg.family # "flag_only"

\* thread 0 of block 0 clears every ExpertSyncInfo; the other blocks do not
\* wait for it
InitSyncInfo(r) ==
    /\ stage[r] \in {"send", "recv"}
    /\ ~sync_info_zeroed[r]
    /\ sync_info_zeroed' = [sync_info_zeroed EXCEPT ![r] = TRUE]
    /\ expert_sync_info_buffer' =
          IF HasSyncInfo
            THEN [expert_sync_info_buffer EXCEPT ![r] = [e \in Blocks |-> ZeroSyncInfo]]
            ELSE expert_sync_info_buffer
    /\ UNCHANGED <<inputs, host_vars, cleaner_vars, grid_syncs, combine_vars, ibgda_qp, stage, call_idx, block_pc, sent, fatal,
                   atomic_counter_per_expert, rdma_recv_x, rdma_recv_count,
                   packed_recv_x, packed_recv_src_info, packed_recv_layout_range,
                   packed_recv_count, num_recv_tokens,
                   recv_token_begin_idx, atomic_clean_flag, rdma_recv_flag>>

\* a block has passed the __syncthreads that follows the memset of block 0
BlockStarted(r, b) == b # 0 \/ sync_info_zeroed[r]

(***************************************************************************)
(* dispatch: send phase.                                                   *)
(***************************************************************************)
\* variants of the ownership mask: the neighbour of the owner, and no mask
owner_rank_for_token_next(token_idx) ==
    IF is_pure_ep_mode THEN (token_idx + 1) % num_ranks ELSE -1

PassesOwnershipMask_all(r, token_idx) == TRUE

\* token ownership mask of the top-k loop
owner_rank_for_token(token_idx) == IF is_pure_ep_mode THEN token_idx % num_ranks ELSE -1

PassesOwnershipMask(r, token_idx) ==
    ~(is_pure_ep_mode /\ r # owner_rank_for_token(token_idx))

\* the top-k entries of rank r that block responsible_expert_idx sends
SendEntries(r, responsible_expert_idx) ==
    { e \in Tokens \X TopkOffsets :
        /\ topk_idx[r][e[1]][e[2]] >= 0
        /\ topk_idx[r][e[1]][e[2]] = responsible_expert_idx
        /\ PassesOwnershipMask(r, e[1]) }

\* variant of the send bounds check that lets slot S_max through
SlotOverflow_late(slot_idx) == slot_idx > num_max_dispatch_tokens_per_rank

SlotOverflow(slot_idx) == slot_idx >= num_max_dispatch_tokens_per_rank

\* one iteration of the top-k loop that passes the three skips: the warp of
\* token_idx in block dst_expert_idx reserves a slot and writes the message
Send(r, token_idx, topk_offset) ==
    LET dst_expert_idx == topk_idx[r][token_idx][topk_offset]
        dst_rank == dst_expert_idx \div num_local_experts
        dst_expert_local_idx == dst_expert_idx % num_local_experts
        counter_idx == dst_expert_idx * num_ranks + r
        slot_idx == atomic_counter_per_expert[r][counter_idx]
        sync == expert_sync_info_buffer[r][dst_expert_idx]
    IN
    /\ stage[r] = "send"
    /\ <<token_idx, topk_offset>> \notin sent[r]
    /\ <<token_idx, topk_offset>> \in SendEntries(r, dst_expert_idx)
    /\ BlockStarted(r, dst_expert_idx)
    /\ atomic_counter_per_expert' =
          [atomic_counter_per_expert EXCEPT ![r][counter_idx] = @ + 1]
    /\ IF SlotOverflow(slot_idx)
         THEN /\ Abort(r, "slot_overflow")
              /\ UNCHANGED <<sent, expert_sync_info_buffer, rdma_recv_x, ibgda_qp>>
         ELSE /\ sent' = [sent EXCEPT ![r] = @ \cup {<<token_idx, topk_offset>>}]
              /\ expert_sync_info_buffer' =
                    IF HasSyncInfo
                      THEN [expert_sync_info_buffer EXCEPT ![r][dst_expert_idx] =
                              [sync EXCEPT !.expected_tokens_per_rank[r] = @ + 1,
                                           !.total_expected_tokens = @ + 1]]
                      ELSE expert_sync_info_buffer
              /\ IF HasP2P(r, dst_rank)
                   THEN /\ rdma_recv_x' =
                              [rdma_recv_x EXCEPT
                                  ![dst_rank][MsgOffset(dst_expert_local_idx, r, slot_idx)] =
                                      [src_idx |-> token_idx, data |-> XData(r, token_idx)]]
                        /\ UNCHANGED ibgda_qp
                   ELSE /\ ibgda_qp' =
                              [ibgda_qp EXCEPT
                                  ![<<r, dst_rank, PutQp(dst_expert_local_idx)>>] =
                                      Append(@, PutOp(MsgOffset(dst_expert_local_idx, r, slot_idx),
                                                      [src_idx |-> token_idx,
                                                       data |-> XData(r, token_idx)]))]
                        /\ UNCHANGED rdma_recv_x
              /\ UNCHANGED <<stage, fatal>>
    /\ UNCHANGED <<inputs, host_vars, cleaner_vars, grid_syncs, combine_vars, call_idx, block_pc, sync_info_zeroed, rdma_recv_count,
                   packed_recv_x, packed_recv_src_info, packed_recv_layout_range,
                   packed_recv_count, num_recv_tokens,
                   recv_token_begin_idx, atomic_clean_flag, rdma_recv_flag>>

\* expected_count of the token-drop detector of block responsible_expert_idx
expected_count(r, responsible_expert_idx) ==
    Cardinality({ e \in Tokens \X TopkOffsets :
                    /\ topk_idx[r][e[1]][e[2]] >= 0
                    /\ topk_idx[r][e[1]][e[2]] = responsible_expert_idx
                    /\ (~is_pure_ep_mode \/ e[1] % num_ranks = r) })

TokenDrop(r, b) ==
    atomic_counter_per_expert[r][b * num_ranks + r] < expected_count(r, b)

\* the build option that leaves out the grid-wide sync after the send phase
DEEPEP_SKIP_GRID_SYNC == cfg.family = "skip_sync"

\* every block has left its send loop and passed the token-drop check: the
\* grid-wide sync after the send phase
GridSyncAfterSend(r) ==
    /\ ~DEEPEP_SKIP_GRID_SYNC
    /\ stage[r] = "send"
    /\ sync_info_zeroed[r]
    /\ \A b \in Blocks : SendEntries(r, b) \subseteq sent[r]
    /\ IF \E b \in Blocks : TokenDrop(r, b)
         THEN /\ Abort(r, "token_drop")
              /\ UNCHANGED block_pc
         ELSE /\ stage' = [stage EXCEPT ![r] = "count"]
              /\ block_pc' = [block_pc EXCEPT ![r] = [b \in Blocks |-> "count"]]
              /\ UNCHANGED fatal
    /\ grid_syncs' = [grid_syncs EXCEPT ![r] = IF \E b \in Blocks : TokenDrop(r, b) THEN @ ELSE GridSynced(r, 1)]
    /\ UNCHANGED <<inputs, host_vars, cleaner_vars, combine_vars, ibgda_qp, call_idx, sync_info_zeroed, sent,
                   atomic_counter_per_expert, rdma_recv_x, rdma_recv_count,
                   packed_recv_x, packed_recv_src_info, packed_recv_layout_range,
                   packed_recv_count, num_recv_tokens,
                   recv_token_begin_idx, expert_sync_info_buffer,
                   atomic_clean_flag, rdma_recv_flag>>

\* the same point of a build with DEEPEP_SKIP_GRID_SYNC: the warps of block b
\* have left the send loop (__syncthreads), the token-drop check of the block
\* has passed, and the block goes on to its count send without waiting for
\* the other blocks
SendSyncElided(r, b) ==
    /\ DEEPEP_SKIP_GRID_SYNC
    /\ stage[r] = "send"
    /\ block_pc[r][b] = "run"
    /\ BlockStarted(r, b)
    /\ SendEntries(r, b) \subseteq sent[r]
    /\ IF TokenDrop(r, b)
         THEN /\ Abort(r, "token_drop")
              /\ UNCHANGED block_pc
         ELSE /\ block_pc' = [block_pc EXCEPT ![r][b] = "count"]
              /\ stage' = [stage EXCEPT ![r] =
                              IF \A o \in Blocks \ {b} : block_pc[r][o] # "run"
                                THEN "count" ELSE @]
              /\ UNCHANGED fatal
    /\ UNCHANGED <<inputs, host_vars, cleaner_vars, grid_syncs, combine_vars, ibgda_qp, call_idx, sync_info_zeroed, sent,
                   atomic_counter_per_expert, rdma_recv_x, rdma_recv_count,
                   packed_recv_x, packed_recv_src_info, packed_recv_layout_range,
                   packed_recv_count, num_recv_tokens,
                   recv_token_begin_idx, expert_sync_info_buffer,
                   atomic_clean_flag, rdma_recv_flag>>

\* variant of the encoding without the offset of one
EncodeCount_plain(actual_sent_count) == -actual_sent_count

\* the value a block posts for actual_sent_count sent tokens
EncodeCount(actual_sent_count) == -actual_sent_count - 1

\* thread 0 of block responsible_expert_idx adds the encoded count to the
\* owner's rdma_recv_count[dst_expert_local_idx * num_ranks + rank]
CountSend(r, responsible_expert_idx) ==
    LET dst_rank == responsible_expert_idx \div num_local_experts
        dst_expert_local_idx == responsible_expert_idx % num_local_experts
        counter_idx == responsible_expert_idx * num_ranks + r
        read == atomic_counter_per_expert[r][counter_idx]
        actual_sent_count == IF is_pure_ep_mode /\ read < 0 THEN 0 ELSE read
        dst_offset == dst_expert_local_idx * num_ranks + r
    IN
    /\ stage[r] \in {"send", "count"}
    /\ block_pc[r][responsible_expert_idx] = "count"
    /\ IF HasP2P(r, dst_rank)
         THEN /\ rdma_recv_count' =
                    [rdma_recv_count EXCEPT
                        ![dst_rank][dst_offset] = @ + EncodeCount(actual_sent_count)]
              /\ UNCHANGED ibgda_qp
         ELSE /\ ibgda_qp' =
                    [ibgda_qp EXCEPT
                        ![<<r, dst_rank, CountQp(dst_expert_local_idx)>>] =
                            Append(@, AmoOp(dst_offset, EncodeCount(actual_sent_count)))]
              /\ UNCHANGED rdma_recv_count
    /\ block_pc' = [block_pc EXCEPT ![r][responsible_expert_idx] = "posted"]
    /\ UNCHANGED <<inputs, host_vars, cleaner_vars, grid_syncs, combine_vars, stage, call_idx, sync_info_zeroed, sent, fatal,
                   atomic_counter_per_expert, rdma_recv_x, packed_recv_x,
                   packed_recv_src_info, packed_recv_layout_range, packed_recv_count,
                   num_recv_tokens, recv_token_begin_idx,
                   expert_sync_info_buffer, atomic_clean_flag, rdma_recv_flag>>

\* the grid-wide sync after the count sends, then the receive label: a
\* launch without the RECV phase returns
GridSyncAfterCount(r) ==
    /\ stage[r] = "count"
    /\ \A b \in Blocks : block_pc[r][b] = "posted"
    /\ IF HasPhase(phases(r), LOW_LATENCY_RECV_PHASE)
         THEN /\ stage' = [stage EXCEPT ![r] = "recv"]
              /\ block_pc' = [block_pc EXCEPT ![r] = RecvEntry(r)]
              /\ UNCHANGED <<call_idx, sync_info_zeroed, sent>>
         ELSE Return(r)
    /\ grid_syncs' = [grid_syncs EXCEPT ![r] =
                        IF HasPhase(phases(r), LOW_LATENCY_RECV_PHASE)
                          THEN GridSynced(r, 1)
                          ELSE Relaunched(GridSynced(r, 1), call_idx[r] + 1)]
    /\ UNCHANGED <<inputs, host_vars, cleaner_vars, combine_vars, ibgda_qp, fatal, atomic_counter_per_expert, rdma_recv_x,
                   rdma_recv_count, packed_recv_x, packed_recv_src_info,
                   packed_recv_layout_range, packed_recv_count,
                   num_recv_tokens, recv_token_begin_idx,
                   expert_sync_info_buffer, atomic_clean_flag, rdma_recv_flag>>

(***************************************************************************)
(* dispatch: receive phase.  Block b serves the pair (local expert         *)
(* b / num_ranks, source rank b % num_ranks) of its own rank.              *)
(***************************************************************************)
\* variants of the decoding and of the arrival test
DecodeCount_plain(read) == -read

CountArrived_below(read) == read < -1

CountArrived_any(read) == TRUE

CountArrived_positive(read) == read > 0

\* the count a receiver decodes from the non-zero value it read
DecodeCount(read) == -read - 1

CountArrived(read) == read # 0

\* one lane spins on rdma_recv_count until it reads a non-zero value
RecvPoll(r, b) ==
    LET local_expert_idx == b \div num_ranks
        src_rank == b % num_ranks
        read == rdma_recv_count[r][local_expert_idx * num_ranks + src_rank]
    IN
    /\ stage[r] = "recv"
    /\ block_pc[r][b] = "poll"
    /\ BlockStarted(r, b)
    /\ CountArrived(read)
    /\ num_recv_tokens' = [num_recv_tokens EXCEPT ![r][b] = DecodeCount(read)]
    /\ block_pc' = [block_pc EXCEPT ![r][b] = "observed"]
    /\ UNCHANGED <<inputs, host_vars, cleaner_vars, grid_syncs, combine_vars, ibgda_qp, stage, call_idx, sync_info_zeroed, sent, fatal,
                   atomic_counter_per_expert, rdma_recv_x, rdma_recv_count,
                   packed_recv_x, packed_recv_src_info, packed_recv_layout_range,
                   packed_recv_count, recv_token_begin_idx,
                   expert_sync_info_buffer, atomic_clean_flag, rdma_recv_flag>>

\* block responsible_expert_idx of rank s still has a count send ahead of it
WillPostCount(s, responsible_expert_idx) ==
    /\ stage[s] \in {"send", "count", "recv"}
    /\ \E j \in call_idx[s] .. Len(cfg.calls) :
          /\ HasPhase(cfg.calls[j], LOW_LATENCY_SEND_PHASE)
          /\ \/ j > call_idx[s]
             \/ /\ stage[s] \in {"send", "count"}
                /\ block_pc[s][responsible_expert_idx] \in {"run", "count"}

\* the spin runs out of its MAX_WAIT iterations: the budget is taken to
\* outlast every count that is still going to be posted
RecvTimeout(r, b) ==
    LET local_expert_idx == b \div num_ranks
        src_rank == b % num_ranks
        read == rdma_recv_count[r][local_expert_idx * num_ranks + src_rank]
    IN
    /\ stage[r] = "recv"
    /\ block_pc[r][b] = "poll"
    /\ BlockStarted(r, b)
    /\ ~CountArrived(read)
    /\ ~WillPostCount(src_rank, r * num_local_experts + local_expert_idx)
    /\ ~CountInFlight(src_rank, r, local_expert_idx * num_ranks + src_rank)
    /\ Abort(r, "count_timeout")
    /\ UNCHANGED <<inputs, host_vars, cleaner_vars, grid_syncs, combine_vars, ibgda_qp, call_idx, block_pc, sync_info_zeroed, sent,
                   atomic_counter_per_expert, rdma_recv_x, rdma_recv_count,
                   packed_recv_x, packed_recv_src_info, packed_recv_layout_range,
                   packed_recv_count, num_recv_tokens, recv_token_begin_idx,
                   expert_sync_info_buffer, atomic_clean_flag, rdma_recv_flag>>

RecvOverflow(begin_idx, n) == begin_idx + n > num_max_dispatch_tokens_per_rank

\* the lane reserves [begin, begin + n) in packed_recv_count and publishes
\* the layout range; a pair without tokens returns after the group barrier
RecvReserve(r, b) ==
    LET local_expert_idx == b \div num_ranks
        src_rank == b % num_ranks
        counter_idx == local_expert_idx * num_ranks + src_rank
        n == num_recv_tokens[r][b]
        begin_idx == packed_recv_count[r][counter_idx]
    IN
    /\ stage[r] = "recv"
    /\ block_pc[r][b] = "observed"
    /\ packed_recv_count' = [packed_recv_count EXCEPT ![r][counter_idx] = @ + n]
    /\ recv_token_begin_idx' = [recv_token_begin_idx EXCEPT ![r][b] = begin_idx]
    /\ IF RecvOverflow(begin_idx, n)
         THEN /\ Abort(r, "recv_overflow")
              /\ UNCHANGED <<block_pc, packed_recv_layout_range>>
         ELSE /\ packed_recv_layout_range' =
                    [packed_recv_layout_range EXCEPT ![r][counter_idx] = pack2(n, begin_idx)]
              /\ block_pc' = [block_pc EXCEPT ![r][b] = IF n = 0 THEN "done" ELSE "drain"]
              /\ UNCHANGED <<stage, fatal>>
    /\ UNCHANGED <<inputs, host_vars, cleaner_vars, grid_syncs, combine_vars, ibgda_qp, call_idx, sync_info_zeroed, sent,
                   atomic_counter_per_expert, rdma_recv_x, rdma_recv_count,
                   packed_recv_x, packed_recv_src_info, num_recv_tokens,
                   expert_sync_info_buffer, atomic_clean_flag, rdma_recv_flag>>

\* where the copy loop stores the source index and the payload of message i
SrcInfoSlot(begin_idx, i) == i
PayloadSlot(begin_idx, i) == begin_idx + i

\* the warps copy the n messages of the pair out of rdma_recv_x
RecvCopy(r, b) ==
    LET local_expert_idx == b \div num_ranks
        src_rank == b % num_ranks
        n == num_recv_tokens[r][b]
        begin_idx == recv_token_begin_idx[r][b]
        Msg(i) == rdma_recv_x[r][MsgOffset(local_expert_idx, src_rank, i)]
        InfoAt(j) == { i \in 0 .. (n - 1) :
                         MsgOffset(local_expert_idx, src_rank, SrcInfoSlot(begin_idx, i)) = j }
        DataAt(j) == { i \in 0 .. (n - 1) :
                         MsgOffset(local_expert_idx, src_rank, PayloadSlot(begin_idx, i)) = j }
    IN
    /\ stage[r] = "recv"
    /\ block_pc[r][b] = "drain"
    /\ IF \E i \in 0 .. (n - 1) : PayloadSlot(begin_idx, i) >= num_max_dispatch_tokens_per_rank
         THEN /\ Abort(r, "slot_out_of_bounds")
              /\ UNCHANGED <<block_pc, packed_recv_src_info, packed_recv_x>>
         ELSE /\ packed_recv_src_info' =
                    [packed_recv_src_info EXCEPT ![r] =
                        [j \in SlotIdx |->
                            IF InfoAt(j) # {} THEN Msg(CHOOSE i \in InfoAt(j) : TRUE).src_idx
                                              ELSE @[j]]]
              /\ packed_recv_x' =
                    [packed_recv_x EXCEPT ![r] =
                        [j \in SlotIdx |->
                            IF DataAt(j) # {} THEN Msg(CHOOSE i \in DataAt(j) : TRUE).data
                                              ELSE @[j]]]
              /\ block_pc' = [block_pc EXCEPT ![r][b] = "done"]
              /\ UNCHANGED <<stage, fatal>>
    /\ UNCHANGED <<inputs, host_vars, cleaner_vars, grid_syncs, combine_vars, ibgda_qp, call_idx, sync_info_zeroed, sent,
                   atomic_counter_per_expert, rdma_recv_x, rdma_recv_count,
                   packed_recv_layout_range, packed_recv_count, num_recv_tokens,
                   recv_token_begin_idx, expert_sync_info_buffer,
                   atomic_clean_flag, rdma_recv_flag>>

\* every block has reached the end of the kernel
DispatchExit(r) ==
    /\ stage[r] = "recv"
    /\ sync_info_zeroed[r]
    /\ \A b \in Blocks : block_pc[r][b] = "done"
    /\ Return(r)
    /\ grid_syncs' = [grid_syncs EXCEPT ![r] = Relaunched(@, call_idx[r] + 1)]
    /\ UNCHANGED <<inputs, host_vars, cleaner_vars, combine_vars, ibgda_qp, fatal, atomic_counter_per_expert, rdma_recv_x,
                   rdma_recv_count, packed_recv_x, packed_recv_src_info,
                   packed_recv_layout_range, packed_recv_count, num_recv_tokens,
                   recv_token_begin_idx, expert_sync_info_buffer,
                   atomic_clean_flag, rdma_recv_flag>>

(***************************************************************************)
(* The cleaner between two dispatch iterations.  The kernel is a world     *)
(* barrier, the zeroing of the regions it is given, and a second world     *)
(* barrier: no rank leaves it before every rank has zeroed.  The regions   *)
(* are the signalling buffers of the symmetric heap without the count      *)
(* buffer, and the ExpertSyncInfo array; the host hands the next dispatch  *)
(* a zeroed packed_recv_count.                                             *)
(***************************************************************************)
\* the caller passes the count buffer to the cleaner
CleansCounts == cfg.family = "iterations_counts"

IterationClean ==
    /\ \A r \in Ranks : stage[r] = "clean"
    /\ stage' = [r \in Ranks |-> StageOfPhases(phases(r))]
    /\ block_pc' = [r \in Ranks |->
                       IF StageOfPhases(phases(r)) = "recv"
                         THEN RecvEntry(r) ELSE [b \in Blocks |-> "run"]]
    /\ rdma_recv_count' =
          IF CleansCounts THEN [r \in Ranks |-> [i \in PairIdx |-> 0]] ELSE rdma_recv_count
    /\ rdma_recv_flag' = [r \in Ranks |-> [l \in LocalExperts |-> 0]]
    /\ expert_sync_info_buffer' =
          IF HasSyncInfo THEN [r \in Ranks |-> [e \in Blocks |-> ZeroSyncInfo]]
                         ELSE expert_sync_info_buffer
    /\ packed_recv_count' = [r \in Ranks |-> [i \in PairIdx |-> 0]]
    /\ UNCHANGED <<inputs, host_vars, cleaner_vars, grid_syncs, combine_vars, ibgda_qp,
                   call_idx, sync_info_zeroed, sent, fatal, atomic_counter_per_expert,
                   rdma_recv_x, packed_recv_x, packed_recv_src_info,
                   packed_recv_layout_range, num_recv_tokens, recv_token_begin_idx,
                   atomic_clean_flag>>

(***************************************************************************)
(* combine.  Block expert_idx of a rank returns to rank                    *)
(* expert_idx / num_local_experts the tokens that rank sent to local       *)
(* expert expert_idx % num_local_experts; after the grid-wide sync every   *)
(* block takes part in the reduction of the output tokens.  Payloads and   *)
(* weights are small integers, one per token: the elements of a hidden     *)
(* vector are treated alike.  The ranks that launch combine reach each     *)
(* other through P2P mappings.                                             *)
(***************************************************************************)
ceil_div(a, b) == (a + b - 1) \div b

min(a, b) == IF a < b THEN a ELSE b

\* the SM count the combine wrapper is given: the "few_sms" family runs on a
\* device with fewer SMs than experts
num_device_sms == IF cfg.family = "few_sms" THEN 1 ELSE 132

\* num_warp_groups of the combine kernel, as the wrapper computes it
combine_num_warp_groups == ceil_div(num_experts, num_device_sms)

kNumElemsPerInt4 == 8
chunk_size == 256
combine_hidden == 2048

\* actual_num_int4_per_data * kNumElemsPerInt4
elements_per_token == ((combine_hidden * 2) \div 16) * kNumElemsPerInt4
num_chunks == (elements_per_token + chunk_size - 1) \div chunk_size

num_combined_tokens == num_tokens

RECURSIVE SumOver(_, _)
\* f[0] + ... + f[n - 1]
SumOver(f, n) == IF n = 0 THEN 0 ELSE f[n - 1] + SumOver(f, n - 1)

\* static_cast<nv_bfloat16>(float) on the integers: 8 bits of significand,
\* round to nearest even
to_bf16(v) ==
    IF v < 0 \/ v <= 256 \/ v > 512 THEN v
    ELSE IF v % 4 = 1 THEN v - 1
    ELSE IF v % 4 = 3 THEN v + 1
    ELSE v

\* what a local expert computes: its output for a payload tells the expert
\* and the payload
expert_fn(expert_idx, payload) == 10 * (expert_idx + 1) + payload

\* the tensor x the caller passes to combine: the output of the local expert
\* for the payload dispatch stored in slot j of packed_recv_x
ExpertOutput(r, j) ==
    expert_fn(r * num_local_experts
                + j \div (num_ranks * num_max_dispatch_tokens_per_rank),
              packed_recv_x[r][j])

\* the phases the callers pass: one launch with both phases on every rank;
\* the "phases" family also has one rank that runs one phase only, and the
\* send and the receive phase in two launches on every rank
CombinePlans ==
    IF cfg.family = "phases"
      THEN { [r \in Ranks |-> <<IF r = odd THEN p ELSE SEND_RECV>>] :
                odd \in Ranks,
                p \in {SEND_RECV, LOW_LATENCY_SEND_PHASE, LOW_LATENCY_RECV_PHASE} }
           \cup { [r \in Ranks |-> <<LOW_LATENCY_SEND_PHASE, LOW_LATENCY_RECV_PHASE>>] }
      ELSE { [r \in Ranks |-> <<SEND_RECV>>] }

\* the weights of the batch, the same on every rank: weights that tell the
\* entries apart and weights that are all zero
WeightTables ==
    CASE cfg.family = "pure_ep" ->
           { [t \in Tokens |-> [k \in TopkOffsets |-> 1 + k + t]],
             [t \in Tokens |-> [k \in TopkOffsets |-> 0]] }
      [] cfg.family \in {"phases", "corrupt"} ->
           { [t \in Tokens |-> [k \in TopkOffsets |-> 1 + k + t]] }
      [] OTHER ->
           { [t \in Tokens |-> [k \in TopkOffsets |-> 1]] }

\* the values of shared_num_topk the threads of a block may read back: the
\* parameter, and in the "corrupt" family also values shared memory holds
\* after it was damaged
CachedNumTopk == IF cfg.family = "corrupt" THEN {num_topk, 0, 33} ELSE {num_topk}

combine_phases(r) == combine_calls[r][combine_idx[r] + 1]

skip_recv_phase(r) == ~HasPhase(combine_phases(r), LOW_LATENCY_RECV_PHASE)

\* the host launches the combine kernel of rank r; the first launch of the
\* run fixes what the callers pass
CombineLaunch(r) ==
    /\ stage[r] = "combine_host"
    /\ IF \A s \in Ranks : combine_calls[s] = <<>>
         THEN \E plan \in CombinePlans : \E w \in WeightTables :
                 /\ combine_calls' = plan
                 /\ topk_weights' = [s \in Ranks |-> w]
         ELSE UNCHANGED <<combine_calls, topk_weights>>
    /\ stage' = [stage EXCEPT ![r] = "combine"]
    /\ block_pc' = [block_pc EXCEPT ![r] =
                      [b \in Blocks |->
                          IF HasPhase(combine_calls'[r][combine_idx[r] + 1], LOW_LATENCY_SEND_PHASE)
                            THEN "combine" ELSE "flagged"]]
    /\ reduce_idx' = [reduce_idx EXCEPT ![r] = 0]
    /\ flag_posts' = [flag_posts EXCEPT ![r] = [b \in Blocks |-> 0]]
    /\ \E cached \in [Blocks -> CachedNumTopk] :
          shared_num_topk' = [shared_num_topk EXCEPT ![r] = cached]
    /\ grid_syncs' = [grid_syncs EXCEPT ![r] = Append(@, 0)]
    /\ UNCHANGED <<inputs, host_vars, cleaner_vars, diagnostics, ibgda_qp, call_idx, sync_info_zeroed, sent, fatal,
                   atomic_counter_per_expert, rdma_recv_x, rdma_recv_count,
                   packed_recv_x, packed_recv_src_info, packed_recv_layout_range,
                   packed_recv_count, num_recv_tokens, recv_token_begin_idx,
                   expert_sync_info_buffer, atomic_clean_flag, rdma_recv_flag,
                   combine_idx, combine_recv_x, fp32_workspace, combined_x,
                   reduce_entered, reduce_calls>>

\* warp 0 of block 0 has cleaned the next buffer
CombineClean(r) ==
    /\ stage[r] = "combine"
    /\ HasPhase(combine_phases(r), LOW_LATENCY_SEND_PHASE)
    /\ atomic_clean_flag[r] = 0
    /\ atomic_clean_flag' = [atomic_clean_flag EXCEPT ![r] = @ + num_experts]
    /\ UNCHANGED <<inputs, host_vars, cleaner_vars, grid_syncs, combine_vars, ibgda_qp, stage, call_idx, block_pc, sync_info_zeroed, sent, fatal,
                   atomic_counter_per_expert, rdma_recv_x, rdma_recv_count,
                   packed_recv_x, packed_recv_src_info, packed_recv_layout_range,
                   packed_recv_count, num_recv_tokens, recv_token_begin_idx,
                   expert_sync_info_buffer, rdma_recv_flag>>

\* the layout range block expert_idx of a rank reads in combine send
CombineLayoutIdx(expert_idx) ==
    (expert_idx % num_local_experts) * num_ranks + expert_idx \div num_local_experts

\* the slot of the destination's combine receive buffer that the block of
\* rank r writes for the token at slot_idx of its layout range
CombineDstSlot_next(r, local_expert_idx, offset_in_packed, slot_idx) ==
    MsgOffset(local_expert_idx, r, slot_idx + 1)

CombineDstSlot(r, local_expert_idx, offset_in_packed, slot_idx) ==
    MsgOffset(local_expert_idx, r, slot_idx)

\* the slot of x and of src_info the block reads for that token
CombineSrcSlot(dst_rank, local_expert_idx, offset_in_packed, slot_idx) ==
    MsgOffset(local_expert_idx, dst_rank, offset_in_packed + slot_idx)

\* block expert_idx: the messages of its tokens and, after the barriers, the
\* finishing flag (an increment of the destination's rdma_recv_flag) and the
\* received counts of the sender's ExpertSyncInfo, posted by lane 0 of
\* sub-warp 1 of every warp group of the block, one warp group per step
CombineFlag(r, expert_idx) ==
    LET dst_rank == expert_idx \div num_local_experts
        local_expert_idx == expert_idx % num_local_experts
        layout == packed_recv_layout_range[r][CombineLayoutIdx(expert_idx)]
        num_tokens_to_send == unpack2_x(layout)
        offset_in_packed == unpack2_y(layout)
        sync == expert_sync_info_buffer[r][expert_idx]
        Slots == { i \in 0 .. (num_tokens_to_send - 1) : i < num_max_dispatch_tokens_per_rank }
        WrittenBy(j) == { i \in Slots :
                            CombineDstSlot(r, local_expert_idx, offset_in_packed, i) = j }
        MsgOf(i) ==
            LET from == CombineSrcSlot(dst_rank, local_expert_idx, offset_in_packed, i)
            IN  [src_idx |-> packed_recv_src_info[r][from], data |-> ExpertOutput(r, from)]
    IN
    /\ stage[r] = "combine"
    /\ block_pc[r][expert_idx] = "combine"
    /\ combine_recv_x' =
          [combine_recv_x EXCEPT ![dst_rank] =
              [j \in SlotIdx |->
                  IF WrittenBy(j) # {} THEN MsgOf(CHOOSE i \in WrittenBy(j) : TRUE)
                                       ELSE @[j]]]
    /\ IF num_tokens_to_send > 0
         THEN /\ atomic_clean_flag[r] # 0
              /\ rdma_recv_flag' = [rdma_recv_flag EXCEPT ![dst_rank][local_expert_idx] = @ + 1]
              /\ flag_posts' = [flag_posts EXCEPT ![r][expert_idx] = @ + 1]
              /\ block_pc' = [block_pc EXCEPT ![r][expert_idx] =
                                IF flag_posts[r][expert_idx] + 1 = combine_num_warp_groups
                                  THEN "flagged" ELSE "combine"]
              /\ expert_sync_info_buffer' =
                    IF HasSyncInfo
                      THEN [expert_sync_info_buffer EXCEPT ![r][expert_idx] =
                              [sync EXCEPT !.received_tokens_per_rank[r] = @ + num_tokens_to_send,
                                           !.total_received_tokens = @ + num_tokens_to_send,
                                           !.expert_processing_complete =
                                               IF flag_posts[r][expert_idx] = 0 THEN @ + 1 ELSE @]]
                      ELSE expert_sync_info_buffer
         ELSE /\ rdma_recv_flag' = rdma_recv_flag
              /\ flag_posts' = flag_posts
              /\ block_pc' = [block_pc EXCEPT ![r][expert_idx] = "flagged"]
              /\ expert_sync_info_buffer' =
                    IF HasSyncInfo
                      THEN [expert_sync_info_buffer EXCEPT ![r][expert_idx] =
                              [sync EXCEPT !.expert_processing_complete = @ + 1]]
                      ELSE expert_sync_info_buffer
    /\ UNCHANGED <<inputs, host_vars, cleaner_vars, shared_num_topk, diagnostics, grid_syncs, ibgda_qp, stage, call_idx, sync_info_zeroed, sent, fatal,
                   atomic_counter_per_expert, rdma_recv_x, rdma_recv_count,
                   packed_recv_x, packed_recv_src_info, packed_recv_layout_range,
                   packed_recv_count, num_recv_tokens, recv_token_begin_idx,
                   atomic_clean_flag, combine_calls, combine_idx, topk_weights,
                   fp32_workspace, combined_x, reduce_idx, reduce_entered, reduce_calls>>

(***************************************************************************)
(* combine: receive phase.                                                 *)
(***************************************************************************)
\* some rank sent tokens to local expert local_expert_idx of rank r
will_receive_data(r, local_expert_idx) ==
    \E src_rank \in Ranks :
        unpack2_x(packed_recv_layout_range[r][local_expert_idx * num_ranks + src_rank]) > 0

\* variant in which the blocks do not wait
RecvWaitDone_skip(r) == TRUE

\* the wait of block expert_idx of rank r is over, or the block has none:
\* only the block of an expert of the rank that received tokens waits, on the
\* totals of the ExpertSyncInfo, or on the flag when there is no
\* ExpertSyncInfo buffer
BlockWaitDone(r, expert_idx) ==
    (/\ expert_idx \div num_local_experts = r
     /\ will_receive_data(r, expert_idx % num_local_experts)) =>
        IF HasSyncInfo
          THEN expert_sync_info_buffer[r][expert_idx].total_received_tokens
                  >= expert_sync_info_buffer[r][expert_idx].total_expected_tokens
          ELSE rdma_recv_flag[r][expert_idx % num_local_experts] # 0

\* the waits of the blocks of rank r for their experts
RecvWaitDone(r) == \A expert_idx \in Blocks : BlockWaitDone(r, expert_idx)

\* the wait of block expert_idx runs out of its 100000000 iterations: the
\* budget is taken to outlast every increment that is still going to come.
\* The block prints "[GPU HANG DETECTED]", sets timeout_counter back to 0 and
\* goes on spinning
CombineWaitHang(r, expert_idx) ==
    /\ stage[r] = "combine"
    /\ block_pc[r][expert_idx] = "flagged"
    /\ HasSyncInfo
    /\ expert_idx \div num_local_experts = r
    /\ will_receive_data(r, expert_idx % num_local_experts)
    /\ expert_sync_info_buffer[r][expert_idx].total_received_tokens
          < expert_sync_info_buffer[r][expert_idx].total_expected_tokens
    /\ diagnostics' = [diagnostics EXCEPT ![r] = @ \cup {"GPU HANG DETECTED"}]
    /\ UNCHANGED <<inputs, host_vars, cleaner_vars, grid_syncs, ibgda_qp, stage, call_idx, block_pc, sync_info_zeroed, sent, fatal,
                   atomic_counter_per_expert, rdma_recv_x, rdma_recv_count,
                   packed_recv_x, packed_recv_src_info, packed_recv_layout_range,
                   packed_recv_count, num_recv_tokens, recv_token_begin_idx,
                   expert_sync_info_buffer, atomic_clean_flag, rdma_recv_flag,
                   combine_calls, combine_idx, topk_weights, combine_recv_x,
                   fp32_workspace, combined_x, reduce_idx, reduce_entered, reduce_calls,
                   shared_num_topk, flag_posts>>

\* every block has left the send phase and its wait: the grid-wide sync
CombineSendDone(r) ==
    /\ stage[r] = "combine"
    /\ HasPhase(combine_phases(r), LOW_LATENCY_SEND_PHASE) => atomic_clean_flag[r] # 0
    /\ \A b \in Blocks : block_pc[r][b] = "flagged"
    /\ RecvWaitDone(r)
    /\ stage' = [stage EXCEPT ![r] = "reduce_local"]
    /\ grid_syncs' = [grid_syncs EXCEPT ![r] = GridSynced(r, 1)]
    /\ UNCHANGED <<inputs, host_vars, cleaner_vars, combine_vars, ibgda_qp, call_idx, block_pc, sync_info_zeroed, sent, fatal,
                   atomic_counter_per_expert, rdma_recv_x, rdma_recv_count,
                   packed_recv_x, packed_recv_src_info, packed_recv_layout_range,
                   packed_recv_count, num_recv_tokens, recv_token_begin_idx,
                   expert_sync_info_buffer, atomic_clean_flag, rdma_recv_flag>>

\* the validation of safe_num_topk, the copy of shared_num_topk the threads of
\* block sm_id hold
is_corrupted(r, sm_id) == shared_num_topk[r][sm_id] <= 0 \/ shared_num_topk[r][sm_id] > 32

safe_num_topk(r, sm_id) == IF is_corrupted(r, sm_id) THEN 1 ELSE shared_num_topk[r][sm_id]

\* variant in which every block reports its own copy
CorruptionLogged_every(r) == \E sm_id \in Blocks : is_corrupted(r, sm_id)

\* thread 0 of block 0 prints "[FATAL] safe_num_topk corrupted"
CorruptionLogged(r) == is_corrupted(r, 0)

\* the block that reduces token_idx: token_idx = sm_id, sm_id + num_sms, ...
ReduceBlock(token_idx) == token_idx % num_experts

\* element topk_offset + i of a [num_combined_tokens, num_topk] table, where
\* topk_offset = token_idx * safe_num_topk
TopkEntry(table, r, token_idx, i) ==
    LET flat == token_idx * safe_num_topk(r, ReduceBlock(token_idx)) + i
    IN  table[flat \div num_topk][flat % num_topk]

\* the slots of pair (src_local_expert_idx, from_rank) of rank r whose source
\* token is token_idx
MatchingSlots(r, src_local_expert_idx, from_rank, token_idx) ==
    LET layout == packed_recv_layout_range[r][src_local_expert_idx * num_ranks + from_rank]
    IN  { slot \in 0 .. (unpack2_x(layout) - 1) :
            /\ unpack2_y(layout) + slot < num_max_dispatch_tokens_per_rank
            /\ packed_recv_src_info[r][MsgOffset(src_local_expert_idx, from_rank,
                                                 unpack2_y(layout) + slot)] = token_idx }

\* what the scan of the slots of pair (src_local_expert_idx, from_rank) adds
\* for token_idx, before the weight: the first matching slot ends the scan
SlotValue(r, src_local_expert_idx, from_rank, token_idx) ==
    LET layout == packed_recv_layout_range[r][src_local_expert_idx * num_ranks + from_rank]
        found == MatchingSlots(r, src_local_expert_idx, from_rank, token_idx)
        first == CHOOSE slot \in found : \A other \in found : slot <= other
        j == MsgOffset(src_local_expert_idx, from_rank, unpack2_y(layout) + first)
    IN  IF found = {} THEN 0
        ELSE IF j >= num_local_experts * num_ranks * num_max_dispatch_tokens_per_rank THEN 0
        ELSE ExpertOutput(r, j)

\* the contribution of top-k entry i of token_idx on rank r: padding and the
\* experts of other ranks add nothing
EntryWeight_one(r, token_idx, i) == 1

EntryWeight(r, token_idx, i) == TopkEntry(topk_weights[r], r, token_idx, i)

EntryValue(r, token_idx, i) ==
    LET src_expert_idx_local == TopkEntry(topk_idx[r], r, token_idx, i) IN
    IF src_expert_idx_local < 0 THEN 0
    ELSE IF src_expert_idx_local \div num_local_experts # r THEN 0
    ELSE SumOver([from_rank \in Ranks |->
                    SlotValue(r, src_expert_idx_local % num_local_experts, from_rank, token_idx)
                        * EntryWeight(r, token_idx, i)],
                 num_ranks)

\* the accumulator of a token starts from what the workspace holds
combined_values_seeded(r, token_idx) ==
    fp32_workspace[r][token_idx]
        + SumOver([i \in 0 .. (safe_num_topk(r, ReduceBlock(token_idx)) - 1) |->
                      EntryValue(r, token_idx, i)],
                  safe_num_topk(r, ReduceBlock(token_idx)))

combined_values(r, token_idx) ==
    SumOver([i \in 0 .. (safe_num_topk(r, ReduceBlock(token_idx)) - 1) |->
                EntryValue(r, token_idx, i)],
            safe_num_topk(r, ReduceBlock(token_idx)))

\* what a rank that skipped its receive phase leaves in its workspace before
\* the collective
SkippedWorkspace_stale(r, token_idx) == fp32_workspace[r][token_idx]

SkippedWorkspace(r, token_idx) == 0

\* the reduce loop of the blocks, the write-out of the partials and the
\* zeroing by block 0 of a rank that skipped its receive phase, up to the
\* grid-wide sync before the collective
CombineReduceLocal(r) ==
    /\ stage[r] = "reduce_local"
    /\ IF is_pure_ep_mode
         THEN /\ fp32_workspace' =
                    [fp32_workspace EXCEPT ![r] =
                        [t \in Tokens |->
                            IF skip_recv_phase(r) THEN SkippedWorkspace(r, t)
                                                  ELSE combined_values(r, t)]]
              /\ combined_x' = combined_x
              /\ stage' = [stage EXCEPT ![r] = "reduce"]
         ELSE /\ combined_x' =
                    [combined_x EXCEPT ![r] =
                        [t \in Tokens |->
                            IF skip_recv_phase(r) THEN @[t]
                                                  ELSE to_bf16(combined_values(r, t))]]
              /\ fp32_workspace' = fp32_workspace
              /\ stage' = [stage EXCEPT ![r] = "reset"]
    /\ diagnostics' = [diagnostics EXCEPT ![r] =
                        IF CorruptionLogged(r) THEN @ \cup {"safe_num_topk corrupted"} ELSE @]
    /\ grid_syncs' = [grid_syncs EXCEPT ![r] = IF is_pure_ep_mode THEN GridSynced(r, 2) ELSE @]
    /\ UNCHANGED <<inputs, host_vars, cleaner_vars, shared_num_topk, flag_posts, ibgda_qp, call_idx, block_pc, sync_info_zeroed, sent, fatal,
                   atomic_counter_per_expert, rdma_recv_x, rdma_recv_count,
                   packed_recv_x, packed_recv_src_info, packed_recv_layout_range,
                   packed_recv_count, num_recv_tokens, recv_token_begin_idx,
                   expert_sync_info_buffer, atomic_clean_flag, rdma_recv_flag,
                   combine_calls, combine_idx, topk_weights, combine_recv_x,
                   reduce_idx, reduce_entered, reduce_calls>>

(***************************************************************************)
(* combine: the Pure EP reduction.  nvshmemx_float_sum_reduce_block is a   *)
(* collective of all ranks: the calls of a rank are matched, in order,     *)
(* with the calls of the others, and a call returns on every rank with the *)
(* sum of what the ranks passed.                                           *)
(***************************************************************************)
\* block 0 of rank r enters the collectives of its next token, one per chunk
ReduceEnter(r) ==
    /\ stage[r] = "reduce"
    /\ reduce_idx[r] < num_combined_tokens
    /\ ~reduce_entered[r]
    /\ reduce_entered' = [reduce_entered EXCEPT ![r] = TRUE]
    /\ reduce_calls' = [reduce_calls EXCEPT ![r] = @ + num_chunks]
    /\ UNCHANGED <<inputs, host_vars, cleaner_vars, shared_num_topk, diagnostics, flag_posts, grid_syncs, ibgda_qp, stage, call_idx, block_pc, sync_info_zeroed, sent, fatal,
                   atomic_counter_per_expert, rdma_recv_x, rdma_recv_count,
                   packed_recv_x, packed_recv_src_info, packed_recv_layout_range,
                   packed_recv_count, num_recv_tokens, recv_token_begin_idx,
                   expert_sync_info_buffer, atomic_clean_flag, rdma_recv_flag,
                   combine_calls, combine_idx, topk_weights, combine_recv_x,
                   fp32_workspace, combined_x, reduce_idx>>

\* every rank is inside the collective: it returns the sum on every rank
ReduceComplete ==
    LET total == SumOver([r \in Ranks |-> fp32_workspace[r][reduce_idx[r]]], num_ranks) IN
    /\ \A r \in Ranks : reduce_entered[r]
    /\ fp32_workspace' =
          [r \in Ranks |-> [fp32_workspace[r] EXCEPT ![reduce_idx[r]] = total]]
    /\ reduce_idx' = [r \in Ranks |-> reduce_idx[r] + 1]
    /\ reduce_entered' = [r \in Ranks |-> FALSE]
    /\ UNCHANGED <<inputs, host_vars, cleaner_vars, shared_num_topk, diagnostics, flag_posts, grid_syncs, ibgda_qp, stage, call_idx, block_pc, sync_info_zeroed, sent, fatal,
                   atomic_counter_per_expert, rdma_recv_x, rdma_recv_count,
                   packed_recv_x, packed_recv_src_info, packed_recv_layout_range,
                   packed_recv_count, num_recv_tokens, recv_token_begin_idx,
                   expert_sync_info_buffer, atomic_clean_flag, rdma_recv_flag,
                   combine_calls, combine_idx, topk_weights, combine_recv_x,
                   combined_x, reduce_calls>>

\* the number block expert_idx subtracts from the flag of its local expert:
\* the remote ranks with tokens in its layout ranges
expected_decrements(r, local_expert_idx) ==
    Cardinality({ src_rank \in Ranks :
                    /\ src_rank # r
                    /\ unpack2_x(packed_recv_layout_range[r]
                                    [local_expert_idx * num_ranks + src_rank]) > 0 })

\* the flag of local expert local_expert_idx after the reset of its block
FlagAfterReset(r, local_expert_idx) ==
    IF will_receive_data(r, local_expert_idx)
      THEN rdma_recv_flag[r][local_expert_idx] - expected_decrements(r, local_expert_idx)
      ELSE rdma_recv_flag[r][local_expert_idx]

\* after the last collective: the blocks convert the workspace into
\* combined_x, the owning blocks reset their flags, the kernel ends
CombineFinish(r) ==
    /\ \/ stage[r] = "reduce" /\ reduce_idx[r] = num_combined_tokens
       \/ stage[r] = "reset"
    /\ combined_x' =
          IF stage[r] = "reduce"
            THEN [combined_x EXCEPT ![r] = [t \in Tokens |-> to_bf16(fp32_workspace[r][t])]]
            ELSE combined_x
    /\ rdma_recv_flag' =
          [rdma_recv_flag EXCEPT ![r] = [l \in LocalExperts |-> FlagAfterReset(r, l)]]
    /\ combine_idx' = [combine_idx EXCEPT ![r] = @ + 1]
    /\ stage' = [stage EXCEPT ![r] =
                    IF combine_idx[r] + 1 < Len(combine_calls[r]) THEN "combine_host" ELSE "exit"]
    /\ grid_syncs' = [grid_syncs EXCEPT ![r] = IF stage[r] = "reduce" THEN GridSynced(r, 2) ELSE @]
    /\ UNCHANGED <<inputs, host_vars, cleaner_vars, shared_num_topk, diagnostics, flag_posts, ibgda_qp, call_idx, block_pc, sync_info_zeroed, sent, fatal,
                   atomic_counter_per_expert, rdma_recv_x, rdma_recv_count,
                   packed_recv_x, packed_recv_src_info, packed_recv_layout_range,
                   packed_recv_count, num_recv_tokens, recv_token_begin_idx,
                   expert_sync_info_buffer, atomic_clean_flag,
                   combine_calls, topk_weights, combine_recv_x, fp32_workspace,
                   reduce_idx, reduce_entered, reduce_calls>>

(***************************************************************************)
(* The cleaner: clean_low_latency_buffer and                               *)
(* clean_low_latency_buffer_with_sync.  A rank calls its cleaner twice     *)
(* with the same arguments; clean_mem[r][j] is the memory behind clean_j,  *)
(* one int longer than the longest length passed, and is not touched when  *)
(* the pointer is null.                                                    *)
(***************************************************************************)
MaxCleanInts == 2

CleanCells == 0 .. MaxCleanInts
CleanRuns == 2

\* the ExpertSyncInfo struct, every field
CleanSyncInfo(v, ptr) ==
    [expected_tokens_per_rank |-> [i \in 0 .. 7 |-> v],
     received_tokens_per_rank |-> [i \in 0 .. 7 |-> v],
     total_expected_tokens |-> v,
     total_received_tokens |-> v,
     completed_ranks |-> v,
     expert_processing_complete |-> v,
     combined_x_ptr |-> ptr,
     padding |-> v]

CleanArgs(with_sync, null_0, n_0, null_1, n_1, null_sync, mem, sync) ==
    [with_sync |-> with_sync,
     clean_0_null |-> null_0, num_clean_int_0 |-> n_0,
     clean_1_null |-> null_1, num_clean_int_1 |-> n_1,
     expert_sync_info_null |-> null_sync,
     mem |-> mem, sync |-> sync]

\* what the memory holds before the first call
CleanContents ==
    { <<[j \in 0 .. 1 |-> [i \in CleanCells |-> 1 + j]],
        [e \in Blocks |-> CleanSyncInfo(1, 1)]>>,
      <<[j \in 0 .. 1 |-> [i \in CleanCells |-> i - j]],
        [e \in Blocks |-> CleanSyncInfo(e, 1)]>> }

CleanCalls ==
    { CleanArgs(w, a, n, b, m, (~w) \/ z, c[1], c[2]) :
        w \in BOOLEAN, a \in BOOLEAN, n \in 0 .. MaxCleanInts,
        b \in BOOLEAN, m \in 0 .. MaxCleanInts, z \in BOOLEAN, c \in CleanContents }

\* the call with every input empty, on the same memory
EmptyCall(args) ==
    CleanArgs(args.with_sync, TRUE, 0, TRUE, 0, TRUE, args.mem, args.sync)

\* variant of the early return that never skips
NothingToClean_never(args) == FALSE

\* "Skip if nothing to clean": the early return of the host wrappers
NothingToClean(args) ==
    /\ args.clean_0_null \/ args.num_clean_int_0 = 0
    /\ args.clean_1_null \/ args.num_clean_int_1 = 0
    /\ args.with_sync => args.expert_sync_info_null

\* variant of the loop that flips a cell between 0 and 1
ZeroedInts_flip(region, num_clean_int) ==
    [i \in DOMAIN region |-> IF i < num_clean_int THEN 1 - region[i] ELSE region[i]]

\* the zeroing loops of the kernels
ZeroedInts(region, num_clean_int) ==
    [i \in DOMAIN region |-> IF i < num_clean_int THEN 0 ELSE region[i]]

ZeroedSyncInfo(slot) == CleanSyncInfo(0, slot.combined_x_ptr)

\* the regions the kernel of a call writes
CleanRegions(args) ==
    (IF args.clean_0_null THEN {} ELSE {"clean_0"})
        \cup (IF args.clean_1_null THEN {} ELSE {"clean_1"})
        \cup (IF args.with_sync /\ ~args.expert_sync_info_null THEN {"sync"} ELSE {})

\* nvshmemx_barrier_all_block returns on a rank once every rank has entered
\* the barrier as often as the rank has
BarrierOpen(r) == \A s \in Ranks : clean_arrived[s] >= clean_arrived[r]

\* variant of the kernel that zeroes while it waits in its first barrier
CleanerMayZero_early(r) == clean_pc[r] \in {"barrier_1", "zeroing"}

\* the kernel zeroes between its two barriers
CleanerMayZero(r) == clean_pc[r] = "zeroing"

\* the call of rank r returns to the host
CleanReturn(r) ==
    /\ clean_once' = [clean_once EXCEPT ![r] =
                         IF clean_run[r] = 1 THEN <<clean_mem[r], clean_sync[r]>> ELSE @]
    /\ IF clean_run[r] < CleanRuns
         THEN /\ clean_run' = [clean_run EXCEPT ![r] = @ + 1]
              /\ clean_pc' = [clean_pc EXCEPT ![r] = "host"]
         ELSE /\ clean_run' = clean_run
              /\ clean_pc' = [clean_pc EXCEPT ![r] = "returned"]

dispatch_vars == <<stage, call_idx, block_pc, sync_info_zeroed, sent, fatal,
                   atomic_counter_per_expert, rdma_recv_x, rdma_recv_count,
                   packed_recv_x, packed_recv_src_info, packed_recv_layout_range,
                   packed_recv_count, num_recv_tokens, recv_token_begin_idx,
                   expert_sync_info_buffer, atomic_clean_flag, rdma_recv_flag, ibgda_qp,
                   grid_syncs>>

\* the host wrapper: return early, or launch the kernel, which enters its
\* first barrier
CleanLaunch(r) ==
    /\ clean_pc[r] = "host"
    /\ IF NothingToClean(clean_args[r])
         THEN /\ CleanReturn(r)
              /\ UNCHANGED <<clean_arrived, clean_todo>>
         ELSE /\ clean_pc' = [clean_pc EXCEPT ![r] = "barrier_1"]
              /\ clean_arrived' = [clean_arrived EXCEPT ![r] = @ + 1]
              /\ clean_todo' = [clean_todo EXCEPT ![r] = CleanRegions(clean_args[r])]
              /\ UNCHANGED <<clean_run, clean_once>>
    /\ UNCHANGED <<inputs, host_vars, dispatch_vars, combine_vars, clean_args, clean_mem, clean_sync>>

CleanBarrier1(r) ==
    /\ clean_pc[r] = "barrier_1"
    /\ BarrierOpen(r)
    /\ clean_pc' = [clean_pc EXCEPT ![r] = "zeroing"]
    /\ UNCHANGED <<inputs, host_vars, dispatch_vars, combine_vars, clean_args, clean_run, clean_todo,
                   clean_mem, clean_sync, clean_arrived, clean_once>>

\* the threads zero one of the regions
CleanZero(r, region) ==
    /\ clean_pc[r] \in {"barrier_1", "zeroing"}
    /\ CleanerMayZero(r)
    /\ region \in clean_todo[r]
    /\ clean_todo' = [clean_todo EXCEPT ![r] = @ \ {region}]
    /\ clean_mem' =
          CASE region = "clean_0" ->
                 [clean_mem EXCEPT ![r][0] = ZeroedInts(@, clean_args[r].num_clean_int_0)]
            [] region = "clean_1" ->
                 [clean_mem EXCEPT ![r][1] = ZeroedInts(@, clean_args[r].num_clean_int_1)]
            [] OTHER -> clean_mem
    /\ clean_sync' =
          IF region = "sync"
            THEN [clean_sync EXCEPT ![r] = [e \in Blocks |-> ZeroedSyncInfo(@[e])]]
            ELSE clean_sync
    /\ UNCHANGED <<inputs, host_vars, dispatch_vars, combine_vars, clean_args, clean_pc, clean_run,
                   clean_arrived, clean_once>>

\* the block enters the second barrier
CleanBarrier2Enter(r) ==
    /\ clean_pc[r] = "zeroing"
    /\ clean_todo[r] = {}
    /\ clean_pc' = [clean_pc EXCEPT ![r] = "barrier_2"]
    /\ clean_arrived' = [clean_arrived EXCEPT ![r] = @ + 1]
    /\ UNCHANGED <<inputs, host_vars, dispatch_vars, combine_vars, clean_args, clean_run, clean_todo,
                   clean_mem, clean_sync, clean_once>>

CleanBarrier2(r) ==
    /\ clean_pc[r] = "barrier_2"
    /\ BarrierOpen(r)
    /\ CleanReturn(r)
    /\ UNCHANGED <<inputs, host_vars, dispatch_vars, combine_vars, clean_args, clean_todo, clean_mem,
                   clean_sync, clean_arrived>>

\* no cleaner call is made
CleanerIdle ==
    /\ clean_args = [r \in Ranks |-> CleanArgs(FALSE, TRUE, 0, TRUE, 0, TRUE, <<>>, <<>>)]
    /\ clean_pc = [r \in Ranks |-> "returned"]
    /\ clean_run = [r \in Ranks |-> CleanRuns]
    /\ clean_todo = [r \in Ranks |-> {}]
    /\ clean_mem = [r \in Ranks |-> <<>>]
    /\ clean_sync = [r \in Ranks |-> <<>>]
    /\ clean_arrived = [r \in Ranks |-> 0]
    /\ clean_once = [r \in Ranks |-> <<>>]

(***************************************************************************)
(* The host wrappers of dispatch and combine: the assertions they make     *)
(* before the launch.                                                      *)
(***************************************************************************)
kNumMaxTopK == 9

HostArgs(wrapper, topk, hidden, tokens, experts, ranks, sms) ==
    [wrapper |-> wrapper, num_topk |-> topk, hidden |-> hidden,
     num_tokens |-> tokens, num_experts |-> experts, num_ranks |-> ranks,
     num_device_sms |-> sms]

HostCalls ==
    { HostArgs(w, k, h, t, e, ranks, sms) :
        w \in {"dispatch", "combine"}, k \in {-1, 0, 1, kNumMaxTopK, kNumMaxTopK + 1, 32},
        h \in {0, 100, 128, 2048, 7168}, t \in {-1, 0, 1}, e \in {2, 3, 80},
        ranks \in {2, 16}, sms \in {2, 132} }

\* SWITCH_HIDDEN: the launch is compiled for a few hidden sizes only
SupportedHidden(hidden) == hidden \in {2048, 2560, 4096, 5120, 7168, 8192}

\* variant of the search that keeps the last fitting number of warp groups
DispatchWarpConfig_last(args) ==
    LET min_warps_needed == args.num_topk + 1
        Fits(wg) == /\ 32 \div wg > 0
                    /\ wg * (32 \div wg) >= min_warps_needed
                    /\ wg <= ceil_div(args.num_experts, args.num_device_sms)
        fitting == { wg \in 1 .. 32 : Fits(wg) }
    IN  IF fitting = {} THEN <<1, 32>>
        ELSE LET wg == CHOOSE w \in fitting : \A v \in fitting : w >= v
             IN  <<wg, 32 \div wg>>

\* the warp configuration the dispatch wrapper picks: <<num_warp_groups, num_warps_per_group>>
DispatchWarpConfig(args) ==
    LET min_warps_needed == args.num_topk + 1
        Fits(wg) == /\ 32 \div wg > 0
                    /\ wg * (32 \div wg) >= min_warps_needed
                    /\ wg <= ceil_div(args.num_experts, args.num_device_sms)
        fitting == { wg \in 1 .. 32 : Fits(wg) }
    IN  IF fitting = {} THEN <<1, 32>>
        ELSE LET wg == CHOOSE w \in fitting : \A v \in fitting : w <= v
             IN  <<wg, 32 \div wg>>

\* EP_HOST_ASSERT(num_topk <= kNumMaxTopK)
DispatchTopkAccepted(num_topk_arg) == num_topk_arg <= kNumMaxTopK

\* every host assertion of the dispatch wrapper passes
DispatchHostAccepts(args) ==
    LET wc == DispatchWarpConfig(args)
        num_warps == wc[1] * wc[2]
    IN  /\ num_warps >= args.num_topk + 1
        /\ wc[1] > 0 /\ wc[2] > 0
        /\ kNumMaxTopK + 1 <= wc[1] * wc[2]
        /\ DispatchTopkAccepted(args.num_topk)
        /\ SupportedHidden(args.hidden)

\* EP_HOST_ASSERT(num_topk > 0 && num_topk <= 9)
CombineTopkAccepted(num_topk_arg) == num_topk_arg > 0 /\ num_topk_arg <= 9

\* every host assertion of the combine wrapper passes
CombineHostAccepts(args) ==
    LET num_warp_groups == ceil_div(args.num_experts, args.num_device_sms)
        num_warps_per_group ==
            IF num_warp_groups > 0 THEN min(32 \div num_warp_groups, 32) ELSE 0
    IN  /\ args.num_tokens > 0
        /\ args.hidden > 0 /\ args.hidden % 128 = 0
        /\ args.num_experts > 0 /\ args.num_experts % args.num_ranks = 0
        /\ args.num_ranks > 0
        /\ CombineTopkAccepted(args.num_topk)
        /\ num_warp_groups > 0 /\ num_warps_per_group > 0
        /\ SupportedHidden(args.hidden)

DispatchHost ==
    /\ host_call.wrapper = "dispatch"
    /\ host_outcome = "pending"
    /\ host_outcome' = IF DispatchHostAccepts(host_call) THEN "launched" ELSE "rejected"
    /\ UNCHANGED <<inputs, dispatch_vars, cleaner_vars, combine_vars, host_call>>

CombineHost ==
    /\ host_call.wrapper = "combine"
    /\ host_outcome = "pending"
    /\ host_outcome' = IF CombineHostAccepts(host_call) THEN "launched" ELSE "rejected"
    /\ UNCHANGED <<inputs, dispatch_vars, cleaner_vars, combine_vars, host_call>>

\* no host wrapper is under observation
HostIdle ==
    /\ host_call = [wrapper |-> "none"]
    /\ host_outcome = "none"

(***************************************************************************)
(* The system.                                                             *)
(***************************************************************************)
Next ==
    \/ \E r \in Ranks : InitSyncInfo(r)
    \/ \E r \in Ranks : \E t \in Tokens : \E k \in TopkOffsets : Send(r, t, k)
    \/ \E r \in Ranks : GridSyncAfterSend(r)
    \/ \E r \in Ranks : \E b \in Blocks : CountSend(r, b)
    \/ \E r \in Ranks : GridSyncAfterCount(r)
    \/ \E r \in Ranks : \E b \in Blocks : RecvPoll(r, b)
    \/ \E r \in Ranks : \E b \in Blocks : RecvTimeout(r, b)
    \/ \E r \in Ranks : \E b \in Blocks : RecvReserve(r, b)
    \/ \E r \in Ranks : \E b \in Blocks : RecvCopy(r, b)
    \/ \E r \in Ranks : DispatchExit(r)
    \/ \E r \in Ranks : CombineLaunch(r)
    \/ \E r \in Ranks : CombineClean(r)
    \/ \E r \in Ranks : \E b \in Blocks : CombineFlag(r, b)
    \/ \E r \in Ranks : CombineSendDone(r)
    \/ \E r \in Ranks : CombineReduceLocal(r)
    \/ \E r \in Ranks : ReduceEnter(r)
    \/ ReduceComplete
    \/ \E r \in Ranks : CombineFinish(r)

Init == InitOf(Configs) /\ CleanerIdle /\ HostIdle

Spec == Init /\ [][Next]_vars

\* the send loops of all ranks, up to the grid-wide sync that ends them
SendPhaseInit == InitOf(SendPhaseConfigs) /\ CleanerIdle /\ HostIdle

SendPhaseNext ==
    \/ \E r \in Ranks : InitSyncInfo(r)
    \/ \E r \in Ranks : \E t \in Tokens : \E k \in TopkOffsets : Send(r, t, k)
    \/ \E r \in Ranks : GridSyncAfterSend(r)

SendPhaseSpec == SendPhaseInit /\ [][SendPhaseNext]_vars

\* the cleaner calls of two ranks: rank 0 with any arguments, the other rank
\* with the same arguments or with every input empty
CleanerConfigs == { Config("cleaner", 2, 2, 1, 1, 1, TRUE, <<SEND_RECV>>, FALSE) }

CleanerInit ==
    /\ InitOf(CleanerConfigs)
    /\ \E call \in CleanCalls :
          clean_args \in [Ranks -> {call, EmptyCall(call)}] /\ clean_args[0] = call
    /\ clean_pc = [r \in Ranks |-> "host"]
    /\ clean_run = [r \in Ranks |-> 1]
    /\ clean_todo = [r \in Ranks |-> {}]
    /\ clean_mem = [r \in Ranks |-> clean_args[r].mem]
    /\ clean_sync = [r \in Ranks |-> clean_args[r].sync]
    /\ clean_arrived = [r \in Ranks |-> 0]
    /\ clean_once = [r \in Ranks |-> <<>>]
    /\ HostIdle

CleanerNext ==
    \/ \E r \in Ranks : CleanLaunch(r)
    \/ \E r \in Ranks : CleanBarrier1(r)
    \/ \E r \in Ranks : \E region \in {"clean_0", "clean_1", "sync"} : CleanZero(r, region)
    \/ \E r \in Ranks : CleanBarrier2Enter(r)
    \/ \E r \in Ranks : CleanBarrier2(r)

CleanerSpec == CleanerInit /\ [][CleanerNext]_vars

\* one dispatch of two ranks that reach each other through IBGDA only: rank 0
\* sends its tokens 0 and 2 to expert 1 of rank 1, rank 1 its token 1 anywhere
TransportConfigs ==
    { Config("ibgda", 2, 2, 1, 3, MaxSlots, TRUE, <<SEND_RECV>>, FALSE) }

TransportInit == InitOf(TransportConfigs) /\ CleanerIdle /\ HostIdle

TransportNext ==
    \/ \E r \in Ranks : InitSyncInfo(r)
    \/ \E r \in Ranks : \E t \in Tokens : \E k \in TopkOffsets : Send(r, t, k)
    \/ \E r \in Ranks : GridSyncAfterSend(r)
    \/ \E r \in Ranks : \E b \in Blocks : CountSend(r, b)
    \/ \E r \in Ranks : GridSyncAfterCount(r)
    \/ \E src \in Ranks : \E dst \in Ranks : \E qp \in QpIds : IbgdaDeliver(src, dst, qp)
    \/ \E r \in Ranks : \E b \in Blocks : RecvPoll(r, b)
    \/ \E r \in Ranks : \E b \in Blocks : RecvReserve(r, b)
    \/ \E r \in Ranks : \E b \in Blocks : RecvCopy(r, b)
    \/ \E r \in Ranks : DispatchExit(r)

TransportSpec == TransportInit /\ [][TransportNext]_vars

\* dispatch and combine of two ranks, one local expert each, that hold the
\* same batch: two tokens with two top-k entries each, or three tokens with
\* one entry
CombineConfigs ==
    { Config("pure_ep", 2, 2, 2, 2, MaxSlots, TRUE, <<SEND_RECV>>, TRUE),
      \* rank 0 sends tokens 0 and 2 to the expert of rank 1
      Config("returning", 2, 2, 1, 3, MaxSlots, TRUE, <<SEND_RECV>>, TRUE) }

CombineInit == InitOf(CombineConfigs) /\ CleanerIdle /\ HostIdle

CombineNext ==
    \/ \E r \in Ranks : InitSyncInfo(r)
    \/ \E r \in Ranks : \E t \in Tokens : \E k \in TopkOffsets : Send(r, t, k)
    \/ \E r \in Ranks : GridSyncAfterSend(r)
    \/ \E r \in Ranks : \E b \in Blocks : CountSend(r, b)
    \/ \E r \in Ranks : GridSyncAfterCount(r)
    \/ \E r \in Ranks : \E b \in Blocks : RecvPoll(r, b)
    \/ \E r \in Ranks : \E b \in Blocks : RecvReserve(r, b)
    \/ \E r \in Ranks : \E b \in Blocks : RecvCopy(r, b)
    \/ \E r \in Ranks : DispatchExit(r)
    \/ \E r \in Ranks : CombineLaunch(r)
    \/ \E r \in Ranks : CombineClean(r)
    \/ \E r \in Ranks : \E b \in Blocks : CombineFlag(r, b)
    \/ \E r \in Ranks : CombineSendDone(r)
    \/ \E r \in Ranks : CombineReduceLocal(r)
    \/ \E r \in Ranks : ReduceEnter(r)
    \/ ReduceComplete
    \/ \E r \in Ranks : CombineFinish(r)

CombineSpec == CombineInit /\ [][CombineNext]_vars

\* the same with one top-k entry per token and the launches of combine split
\* into phases
PhasesConfigs ==
    { Config("phases", 2, 2, 1, 2, MaxSlots, TRUE, <<SEND_RECV>>, TRUE) }

PhasesInit == InitOf(PhasesConfigs) /\ CleanerIdle /\ HostIdle

PhasesSpec == PhasesInit /\ [][CombineNext]_vars

\* the launches of PhasesSpec, and a full dispatch and combine of callers
\* that pass no ExpertSyncInfo buffer and of a device with fewer SMs than
\* experts, with the reports of the combine waits
HangConfigs ==
    PhasesConfigs
        \cup { Config(family, 2, 2, 1, 2, MaxSlots, TRUE, <<SEND_RECV>>, TRUE) :
                  family \in {"flag_only", "few_sms"} }

HangInit == InitOf(HangConfigs) /\ CleanerIdle /\ HostIdle

HangNext ==
    \/ CombineNext
    \/ \E r \in Ranks : \E b \in Blocks : CombineWaitHang(r, b)

HangSpec == HangInit /\ [][HangNext]_vars

\* the launches of HangSpec without the reports of the waits; the blocks of a
\* cooperative launch are resident together and every rank has its own
\* device, so a grid that can take a step eventually takes one
WaitSpec == HangInit /\ [][CombineNext]_vars /\ WF_vars(CombineNext)

\* a dispatch and a combine of two ranks with two top-k entries per token, in
\* which the blocks of combine may read back a damaged shared_num_topk
CorruptConfigs ==
    { Config("corrupt", 2, 2, 2, 2, MaxSlots, TRUE, <<SEND_RECV>>, TRUE) }

CorruptInit == InitOf(CorruptConfigs) /\ CleanerIdle /\ HostIdle

CorruptSpec == CorruptInit /\ [][CombineNext]_vars

\* one dispatch of two ranks, three tokens with one top-k entry each, the
\* same batch on both ranks, in the default build and in a build with
\* DEEPEP_SKIP_GRID_SYNC; the blocks of a cooperative launch are resident
\* together, so a grid that can take a step eventually takes one
DispatchConfigs ==
    { Config(build, 2, 2, 1, 3, MaxSlots, TRUE, <<SEND_RECV>>, FALSE) :
        build \in {"default", "skip_sync"} }

DispatchInit == InitOf(DispatchConfigs) /\ CleanerIdle /\ HostIdle

DispatchNext ==
    \/ \E r \in Ranks : InitSyncInfo(r)
    \/ \E r \in Ranks : \E t \in Tokens : \E k \in TopkOffsets : Send(r, t, k)
    \/ \E r \in Ranks : GridSyncAfterSend(r)
    \/ \E r \in Ranks : \E b \in Blocks : SendSyncElided(r, b)
    \/ \E r \in Ranks : \E b \in Blocks : CountSend(r, b)
    \/ \E r \in Ranks : GridSyncAfterCount(r)
    \/ \E r \in Ranks : \E b \in Blocks : RecvPoll(r, b)
    \/ \E r \in Ranks : \E b \in Blocks : RecvReserve(r, b)
    \/ \E r \in Ranks : \E b \in Blocks : RecvCopy(r, b)
    \/ \E r \in Ranks : DispatchExit(r)

DispatchSpec == DispatchInit /\ [][DispatchNext]_vars /\ WF_vars(DispatchNext)

\* two dispatch iterations of two ranks that hold the same batch of two
\* tokens, with the cleaner between the iterations
IterationConfigs ==
    { Config(family, 2, 2, 1, 2, MaxSlots, TRUE, <<SEND_RECV, SEND_RECV>>, FALSE) :
        family \in IterationFamilies }

IterationInit == InitOf(IterationConfigs) /\ CleanerIdle /\ HostIdle

IterationNext ==
    \/ \E r \in Ranks : InitSyncInfo(r)
    \/ \E r \in Ranks : \E t \in Tokens : \E k \in TopkOffsets : Send(r, t, k)
    \/ \E r \in Ranks : GridSyncAfterSend(r)
    \/ \E r \in Ranks : \E b \in Blocks : CountSend(r, b)
    \/ \E r \in Ranks : GridSyncAfterCount(r)
    \/ \E r \in Ranks : \E b \in Blocks : RecvPoll(r, b)
    \/ \E r \in Ranks : \E b \in Blocks : RecvReserve(r, b)
    \/ \E r \in Ranks : \E b \in Blocks : RecvCopy(r, b)
    \/ \E r \in Ranks : DispatchExit(r)
    \/ IterationClean

IterationSpec == IterationInit /\ [][IterationNext]_vars

\* one call of a host wrapper
HostInit ==
    /\ InitOf(CleanerConfigs)
    /\ CleanerIdle
    /\ host_call \in HostCalls
    /\ host_outcome = "pending"

HostNext == DispatchHost \/ CombineHost

HostSpec == HostInit /\ [][HostNext]_vars

(***************************************************************************)
(* Vocabulary of the properties.                                           *)
(***************************************************************************)
\* the schedule is one dispatch call with both phases
SingleIteration == cfg.calls = <<SEND_RECV>>

\* rank r has returned from its last dispatch call
DispatchDone(r) == call_idx[r] > Len(cfg.calls)

\* rank r has left the send loops of its first call without a failed assertion
PastSend(r) == call_idx[r] > 1 \/ stage[r] \in {"count", "recv"}

\* the slot reservations of rank r for expert e that were followed by a write
Reservations(r, e) == { x \in sent[r] : topk_idx[r][x[1]][x[2]] = e }

\* the non-padding top-k entries rank r holds
HeldEntries(r) == { x \in Tokens \X TopkOffsets : topk_idx[r][x[1]][x[2]] >= 0 }

\* the slots, over all ranks, of the section of expert e that hold a message of token t
MessagesOf(t, e) ==
    { x \in Ranks \X (0 .. (num_max_dispatch_tokens_per_rank - 1)) :
        LET m == rdma_recv_x[e \div num_local_experts]
                            [MsgOffset(e % num_local_experts, x[1], x[2])]
        IN  m.data # 0 /\ m.src_idx = t }

\* C1: after one dispatch iteration (SEND|RECV on every rank, from zeroed
\* buffers), packed_recv_count[e mod L, r] on the owner rank e / L equals the
\* number of slot reservations rank r made on counter[e * R + r], and no value
\* exceeds S_max.
C1_PackedRecvCountEqualsReservations ==
    (SingleIteration /\ \A r \in Ranks : DispatchDone(r)) =>
        \A e \in Blocks : \A r \in Ranks :
            LET n == packed_recv_count[e \div num_local_experts]
                                      [(e % num_local_experts) * num_ranks + r]
            IN  /\ n = Cardinality(Reservations(r, e))
                /\ n = atomic_counter_per_expert[r][e * num_ranks + r]
                /\ n <= num_max_dispatch_tokens_per_rank

\* C1 witness: the iteration is over on two ranks and a pair that crosses
\* ranks has received a token
C1_Witness ==
    /\ SingleIteration
    /\ num_ranks = 2
    /\ \A r \in Ranks : DispatchDone(r)
    /\ \E e \in Blocks : \E r \in Ranks :
          /\ e \div num_local_experts # r
          /\ Reservations(r, e) # {}
          /\ packed_recv_count[e \div num_local_experts]
                              [(e % num_local_experts) * num_ranks + r] = 1

\* C2: in Pure EP (every rank holds the full batch) a top-k entry of token t
\* reserves a slot on rank t mod R only: a rank reserves for nothing but its
\* own tokens, its counter for (e, r) counts exactly those reservations, and
\* once the send loops are over every non-padding entry has been sent by
\* exactly the rank t mod R.
C2_PureEPOnlyOwnerSends ==
    cfg.full_batch =>
        /\ \A r \in Ranks : \A x \in sent[r] : x[1] % num_ranks = r
        /\ \A r \in Ranks : \A e \in Blocks :
              fatal[r] = "none" =>
                  atomic_counter_per_expert[r][e * num_ranks + r]
                      = Cardinality(Reservations(r, e))
        /\ (\A r \in Ranks : stage[r] = "count") =>
              \A x \in HeldEntries(0) :
                  { r \in Ranks : x \in sent[r] } = { x[1] % num_ranks }

\* C2 witness: scenario S4 after the send loops, token 5 sent to expert 2 by
\* rank 1 and the counters of expert 2 untouched on ranks 0, 2 and 3
C2_Witness ==
    /\ cfg.family = "S4"
    /\ \A r \in Ranks : stage[r] = "count"
    /\ sent[1] = {<<5, 0>>}
    /\ atomic_counter_per_expert[1][2 * num_ranks + 1] = 1
    /\ \A r \in Ranks \ {1} : atomic_counter_per_expert[r][2 * num_ranks + r] = 0

\* C3: in mixed mode (ranks hold disjoint token subsets) a rank sends every
\* token it holds to each non-padding top-k expert: once the rank is past its
\* send loops, no held entry is missing from what it sent.
C3_MixedModeSendsEveryHeldToken ==
    \A r \in Ranks :
        (~cfg.full_batch /\ SingleIteration /\ PastSend(r)) =>
            HeldEntries(r) \subseteq sent[r]

\* C4: scenario S1 (R = 2, L = 2, E = 4, K = 1, S_max = 4; rank 0 holds
\* [e2, e3], rank 1 holds [e2, e0]): after dispatch rank 0 has e0<-r1 = 1 and
\* nothing else, rank 1 has e2<-r0 = 1, e2<-r1 = 1, e3<-r0 = 1 and nothing else.
C4_ScenarioS1Counts ==
    (cfg.family = "S1" /\ \A r \in Ranks : DispatchDone(r)) =>
        /\ packed_recv_count[0] = [i \in PairIdx |-> IF i = 1 THEN 1 ELSE 0]
        /\ packed_recv_count[1] = [i \in PairIdx |-> IF i = 3 THEN 0 ELSE 1]

\* C5: in Pure EP, once the send loops are over without a failed assertion,
\* the messages written for token t over all ranks are as many as the
\* non-padding entries of t's top-k list, and each destination expert holds
\* at most one of them.
C5_OneMessagePerEntry ==
    (cfg.full_batch /\ \A r \in Ranks : stage[r] = "count") =>
        \A t \in Tokens :
            /\ Cardinality({ x \in Blocks \X Ranks \X (0 .. (num_max_dispatch_tokens_per_rank - 1)) :
                               <<x[2], x[3]>> \in MessagesOf(t, x[1]) })
                  = Cardinality({ k \in TopkOffsets : topk_idx[0][t][k] >= 0 })
            /\ \A e \in Blocks : Cardinality(MessagesOf(t, e)) <= 1

\* C5 witness: two ranks past their send loops, and a token with two
\* non-padding entries has one message at each of its two experts
C5_Witness ==
    /\ cfg.full_batch
    /\ num_topk = 2
    /\ \A r \in Ranks : stage[r] = "count"
    /\ \E t \in Tokens :
          /\ \A k \in TopkOffsets : topk_idx[0][t][k] >= 0
          /\ \A k \in TopkOffsets : Cardinality(MessagesOf(t, topk_idx[0][t][k])) = 1

\* the schedule holds one call with the SEND phase: every rdma_recv_count
\* entry is zero before its only post
OnePost ==
    Cardinality({ j \in 1 .. Len(cfg.calls) :
                    HasPhase(cfg.calls[j], LOW_LATENCY_SEND_PHASE) }) = 1

\* the pair that block b of rank r serves: its source rank and global expert
PairSrc(b) == b % num_ranks
PairExpert(r, b) == r * num_local_experts + b \div num_ranks

\* the lane of block b of rank r has left its spin with a value
Observed(r, b) ==
    stage[r] = "recv" /\ should_process(r) /\ block_pc[r][b] \in {"observed", "drain", "done"}

\* block e of rank s has made the only post of the schedule
Posted(s, e) ==
    /\ ~WillPostCount(s, e)
    /\ fatal[s] \notin {"slot_overflow", "token_drop"}

\* C6: the value posted for a pair with n sent tokens is -n-1 and never 0; a
\* receiver that has left its spin has read a non-zero value, and when the
\* entry was zero before the post, the value is -n-1 and decodes to n, the
\* sender's final slot count of the pair.
C6_CountHandshakeEncoding ==
    /\ \A r \in Ranks : \A e \in Blocks :
          (stage[r] = "count" /\ block_pc[r][e] = "count") =>
              EncodeCount(atomic_counter_per_expert[r][e * num_ranks + r]) # 0
    /\ \A r \in Ranks : \A b \in Blocks :
          Observed(r, b) =>
              LET n == atomic_counter_per_expert[PairSrc(b)]
                           [PairExpert(r, b) * num_ranks + PairSrc(b)]
              IN  /\ rdma_recv_count[r][b] # 0
                  /\ OnePost => /\ rdma_recv_count[r][b] = -n - 1
                                /\ num_recv_tokens[r][b] = n

\* C6 witness: a receiver has decoded the count 1 of a pair that crosses ranks
C6_Witness ==
    \E r \in Ranks : \E b \in Blocks :
        /\ OnePost
        /\ Observed(r, b)
        /\ PairSrc(b) # r
        /\ rdma_recv_count[r][b] = -2
        /\ num_recv_tokens[r][b] = 1

\* C7: a pair without tokens still gets the count -1 posted; the receiver
\* block of the pair can leave its spin as soon as it reads -1, records
\* n = 0, leaves packed_recv_count where it was, publishes the layout range
\* pack(0, begin) and copies no message.
C7_ZeroTokenPair ==
    OnePost =>
        \A r \in Ranks : \A b \in Blocks :
            SendEntries(PairSrc(b), PairExpert(r, b)) = {} =>
                /\ Posted(PairSrc(b), PairExpert(r, b)) => rdma_recv_count[r][b] = -1
                /\ (stage[r] = "recv" /\ should_process(r)) =>
                      /\ (block_pc[r][b] = "poll" /\ BlockStarted(r, b)
                            /\ rdma_recv_count[r][b] = -1) => ENABLED RecvPoll(r, b)
                      /\ block_pc[r][b] # "drain"
                      /\ block_pc[r][b] \in {"observed", "done"} => num_recv_tokens[r][b] = 0
                      /\ block_pc[r][b] = "done" =>
                            /\ packed_recv_layout_range[r][b]
                                  = pack2(0, recv_token_begin_idx[r][b])
                            /\ packed_recv_count[r][b] = recv_token_begin_idx[r][b]
                            /\ \A i \in 0 .. (num_max_dispatch_tokens_per_rank - 1) :
                                  packed_recv_x[r][MsgOffset(b \div num_ranks, PairSrc(b), i)] = 0

\* C7 witness: scenario S2, every top-k entry is padding, and a rank that
\* processes has finished all its pairs on the count -1
C7_Witness ==
    /\ OnePost
    /\ \A r \in Ranks : HeldEntries(r) = {}
    /\ \E r \in Ranks :
          /\ stage[r] = "recv"
          /\ should_process(r)
          /\ \A b \in Blocks :
                /\ block_pc[r][b] = "done"
                /\ rdma_recv_count[r][b] = -1
                /\ packed_recv_layout_range[r][b] = pack2(0, 0)
                /\ packed_recv_count[r][b] = 0

\* the slots of rdma_recv_x that a step writes
WrittenSlots ==
    { x \in Ranks \X SlotIdx : rdma_recv_x'[x[1]][x[2]] # rdma_recv_x[x[1]][x[2]] }

\* C8: a slot reservation that returns an index >= S_max ends in the fatal
\* state without a write, and one that returns an index below S_max writes
\* nothing outside that slot of the pair's section; a receive reservation
\* with begin + n > S_max ends in the fatal state without a copy, so a block
\* that copies holds a range within S_max; a rank with more than S_max
\* entries for one expert leaves its send loops by the slot-overflow
\* assertion only.
C8_CapacityOverflowIsFatal ==
    /\ [](\A r \in Ranks : \A b \in Blocks :
            (stage[r] = "recv" /\ block_pc[r][b] = "drain") =>
                recv_token_begin_idx[r][b] + num_recv_tokens[r][b]
                    <= num_max_dispatch_tokens_per_rank)
    /\ [](\A r \in Ranks : \A e \in Blocks :
            (/\ HasPhase(cfg.calls[1], LOW_LATENCY_SEND_PHASE)
             /\ Cardinality(SendEntries(r, e)) > num_max_dispatch_tokens_per_rank
             /\ stage[r] # "send") => fatal[r] = "slot_overflow")
    /\ [][/\ \A r \in Ranks : \A e \in Blocks :
               LET slot_idx == atomic_counter_per_expert[r][e * num_ranks + r] IN
               atomic_counter_per_expert'[r][e * num_ranks + r] # slot_idx =>
                   IF slot_idx >= num_max_dispatch_tokens_per_rank
                     THEN /\ stage'[r] = "fatal"
                          /\ fatal'[r] = "slot_overflow"
                          /\ rdma_recv_x' = rdma_recv_x
                     ELSE WrittenSlots \subseteq
                              { <<e \div num_local_experts,
                                  MsgOffset(e % num_local_experts, r, slot_idx)>> }
          /\ \A r \in Ranks : \A b \in Blocks :
               (/\ packed_recv_count'[r][b] # packed_recv_count[r][b]
                /\ packed_recv_count'[r][b] > num_max_dispatch_tokens_per_rank) =>
                   /\ stage'[r] = "fatal"
                   /\ fatal'[r] = "recv_overflow"
                   /\ packed_recv_x' = packed_recv_x
                   /\ packed_recv_layout_range' = packed_recv_layout_range]_vars

\* C8 witness: scenario S3, S_max = 2 and three tokens of rank 0 routed to
\* expert 0: two messages written, the third reservation failed the assertion
C8_Witness ==
    /\ num_ranks = 1
    /\ num_tokens = 3
    /\ num_max_dispatch_tokens_per_rank = 2
    /\ \A t \in Tokens : topk_idx[0][t][0] = 0
    /\ fatal[0] = "slot_overflow"
    /\ stage[0] = "fatal"
    /\ atomic_counter_per_expert[0][0] = 3
    /\ \A i \in 0 .. 1 : rdma_recv_x[0][MsgOffset(0, 0, i)].data # 0

\* the result of one call with both phases on rank r: the section of every
\* pair holds the payloads of the entries sent to it, the rest is untouched
SingleCallResult(r) ==
    \A l \in LocalExperts : \A s \in Ranks :
        LET entries == SendEntries(s, r * num_local_experts + l)
            n == Cardinality(entries)
        IN  /\ { packed_recv_x[r][MsgOffset(l, s, i)] : i \in 0 .. (n - 1) }
                  = { XData(s, x[1]) : x \in entries }
            /\ \A i \in n .. (num_max_dispatch_tokens_per_rank - 1) :
                  packed_recv_x[r][MsgOffset(l, s, i)] = 0

\* C9: two calls with phases = SEND followed by two calls with phases = RECV
\* leave the packed_recv_x of one call with phases = SEND|RECV on the same
\* inputs: on inputs within capacity no assertion fails, and a rank that has
\* returned from the four calls holds the single-call result.
C9_PhaseSplitSameResult ==
    (/\ cfg.calls = <<LOW_LATENCY_SEND_PHASE, LOW_LATENCY_SEND_PHASE,
                      LOW_LATENCY_RECV_PHASE, LOW_LATENCY_RECV_PHASE>>
     /\ \A r \in Ranks : \A e \in Blocks :
           Cardinality(SendEntries(r, e)) <= num_max_dispatch_tokens_per_rank) =>
        \A r \in Ranks :
            /\ fatal[r] = "none"
            /\ DispatchDone(r) => SingleCallResult(r)

\* C10: for every global expert e on every rank, in every state of a
\* dispatch + combine iteration, ExpertSyncInfo[e].total_received_tokens is
\* at most ExpertSyncInfo[e].total_expected_tokens.
C10_ReceivedAtMostExpected ==
    SingleIteration =>
        \A r \in Ranks : \A e \in Blocks :
            expert_sync_info_buffer[r][e].total_received_tokens
                <= expert_sync_info_buffer[r][e].total_expected_tokens

\* rank r has returned from the last combine launch of its plan
CombineDone(r) ==
    /\ cfg.run_combine
    /\ stage[r] = "exit"
    /\ combine_idx[r] > 0

\* dispatch and combine ran once, with both phases, on every rank, on a batch
\* that every rank holds, and no assertion failed
PureEPRoundTrip ==
    /\ SingleIteration
    /\ cfg.full_batch
    /\ \A r \in Ranks : fatal[r] = "none"
    /\ \A r \in Ranks : CombineDone(r) /\ combine_calls[r] = <<SEND_RECV>>

\* the weighted sum of the outputs of the experts token t visited
WeightedSum(r, t) ==
    SumOver([k \in TopkOffsets |->
                IF topk_idx[r][t][k] >= 0
                  THEN topk_weights[r][t][k]
                         * expert_fn(topk_idx[r][t][k], XData(owner_rank_for_token(t), t))
                  ELSE 0],
            num_topk)

\* C11: after dispatch followed by combine in Pure EP mode, the combined
\* output of every token t on every rank is the sum, over the non-padding
\* top-k entries k of t, of w[t,k] times the output of expert topk[t,k] for t,
\* every visited expert counted once.
C11_CombineIsWeightedSum ==
    PureEPRoundTrip =>
        \A r \in Ranks : \A t \in Tokens : combined_x[r][t] = WeightedSum(r, t)

\* C11 witness: a token that visited the experts of both ranks with two
\* different weights has been combined on a rank that owns neither the token
\* nor all its experts
C11_Witness ==
    /\ PureEPRoundTrip
    /\ num_ranks = 2
    /\ topk_idx[1][0][0] = 1 /\ topk_idx[1][0][1] = 0
    /\ topk_weights[1][0][0] = 1 /\ topk_weights[1][0][1] = 2
    /\ combined_x[1][0] = 1 * expert_fn(1, XData(0, 0)) + 2 * expert_fn(0, XData(0, 0))

\* every weight the callers passed is zero
AllWeightsZero ==
    \A r \in Ranks : \A t \in Tokens : \A k \in TopkOffsets : topk_weights[r][t][k] = 0

\* every top-k entry of every rank is padding
AllPadding ==
    \A r \in Ranks : \A t \in Tokens : \A k \in TopkOffsets : topk_idx[r][t][k] = -1

C13_FlagZeroAfterCombine ==
    (/\ \A r \in Ranks : CombineDone(r) /\ combine_calls[r] = <<SEND_RECV>>
     /\ \A r \in Ranks : fatal[r] = "none") =>
        \A r \in Ranks : \A l \in LocalExperts : rdma_recv_flag[r][l] = 0

\* block expert_idx of rank r has run its combine send
CombineSent(r, expert_idx) ==
    /\ stage[r] \in {"combine", "reduce_local", "reduce", "reset", "exit"}
    /\ combine_calls[r] = <<SEND_RECV>>
    /\ block_pc[r][expert_idx] = "flagged"

\* the block of the owner of expert_idx that returns the tokens of rank s
ReturnBlock(s, expert_idx) == s * num_local_experts + (expert_idx % num_local_experts)

\* the message dispatch left in slot i of the section of source rank s in the
\* receive buffer of the rank that owns expert_idx
DispatchedAt(s, expert_idx, i) ==
    rdma_recv_x[expert_idx \div num_local_experts]
               [MsgOffset(expert_idx % num_local_experts, s, i)]

\* the message in slot i of the section (l, owner rank) of the combine
\* receive buffer of rank s, l being the local index of expert_idx
ReturnedAt(s, expert_idx, i) ==
    combine_recv_x[s][MsgOffset(expert_idx % num_local_experts,
                                expert_idx \div num_local_experts, i)]

\* C14: combine mirrors the slot addressing of dispatch: the i-th token that
\* rank s sent to an expert comes back, from the combine send of the owner of
\* the expert, in slot i of the section (local expert, owner rank) of the
\* combine receive buffer of rank s, with the source index it was dispatched
\* with and the output of the expert for its payload; the returning tokens of
\* a section are in distinct slots.
C14_CombineMirrorsDispatchSlots ==
    (SingleIteration /\ \A r \in Ranks : fatal[r] = "none") =>
        \A s \in Ranks : \A expert_idx \in Blocks :
            LET owner == expert_idx \div num_local_experts
                n == Cardinality(SendEntries(s, expert_idx))
            IN  CombineSent(owner, ReturnBlock(s, expert_idx)) =>
                    /\ \A i \in 0 .. (n - 1) :
                          /\ ReturnedAt(s, expert_idx, i).src_idx
                                = DispatchedAt(s, expert_idx, i).src_idx
                          /\ ReturnedAt(s, expert_idx, i).data
                                = expert_fn(expert_idx, DispatchedAt(s, expert_idx, i).data)
                    /\ Cardinality({ ReturnedAt(s, expert_idx, i).src_idx : i \in 0 .. (n - 1) }) = n
                    /\ \A i \in n .. (num_max_dispatch_tokens_per_rank - 1) :
                          ReturnedAt(s, expert_idx, i) = ZeroMsg

\* C14 witness: rank 0 sent tokens 0 and 2 to the expert of rank 1, token 2
\* first, and both have come back to rank 0 in the slots they went out in
C14_Witness ==
    /\ SingleIteration
    /\ cfg.family = "returning"
    /\ CombineSent(1, 0)
    /\ DispatchedAt(0, 1, 0).src_idx = 2 /\ DispatchedAt(0, 1, 1).src_idx = 0
    /\ ReturnedAt(0, 1, 0).src_idx = 2 /\ ReturnedAt(0, 1, 1).src_idx = 0
    /\ ReturnedAt(0, 1, 1).data = expert_fn(1, XData(0, 0))

\* rank r is between launches: before its first combine launch, between two
\* of them or after the last
BetweenLaunches(r) == stage[r] \in {"combine_host", "exit"} /\ cfg.run_combine

\* rank r is in the reduction of a launch without receive phase
ReducingSkipped(r) == stage[r] = "reduce" /\ skip_recv_phase(r)

CleanMemory(r) == <<clean_mem[r], clean_sync[r]>>

\* rank r has returned from its first cleaner call
CleanedOnce(r) == clean_run[r] > 1 \/ clean_pc[r] = "returned"

\* C16: the cleaner is idempotent: when the second call of a rank with the
\* same arguments has returned, the two scratch regions and every
\* ExpertSyncInfo slot are what the first call left.
C16_CleanerIdempotent ==
    \A r \in Ranks : clean_pc[r] = "returned" => CleanMemory(r) = clean_once[r]

\* C16 witness: the extended cleaner has run twice on dirty memory and has
\* zeroed both regions and the ExpertSyncInfo slots
C16_Witness ==
    \E r \in Ranks :
        /\ clean_pc[r] = "returned"
        /\ clean_arrived[r] = 4
        /\ clean_args[r].with_sync
        /\ clean_args[r].num_clean_int_0 = MaxCleanInts
        /\ \A i \in CleanCells : clean_args[r].mem[0][i] # 0
        /\ \A i \in 0 .. (MaxCleanInts - 1) : clean_mem[r][0][i] = 0
        /\ \A e \in Blocks : clean_args[r].sync[e].total_expected_tokens # 0
        /\ \A e \in Blocks : clean_sync[r][e].total_expected_tokens = 0

\* C17: barrier-zero-barrier: a step that zeroes memory of rank r is taken
\* after r has passed the first barrier of its call and before it enters the
\* second, when every rank has entered that first barrier; a rank that has
\* entered its second barrier has no zeroing left, and a rank leaves its
\* call only when every rank has entered the second barrier.
C17_BarrierZeroBarrier ==
    /\ [][\A r \in Ranks :
            CleanMemory(r)' # CleanMemory(r) =>
                /\ clean_pc[r] = "zeroing"
                /\ clean_arrived[r] = 2 * clean_run[r] - 1
                /\ \A s \in Ranks : clean_arrived[s] >= clean_arrived[r]]_vars
    /\ [](\A r \in Ranks :
            /\ clean_pc[r] = "barrier_2" => clean_todo[r] = {}
            /\ (clean_pc[r] \in {"host", "returned"} /\ clean_arrived[r] > 0) =>
                  \A s \in Ranks :
                      /\ clean_arrived[s] >= clean_arrived[r]
                      /\ clean_arrived[s] = clean_arrived[r] => clean_todo[s] = {})

\* C17 witness: a rank has left its first call with zeroed memory while the
\* other rank is still in the second barrier of that call
C17_Witness ==
    \E r \in Ranks : \E s \in Ranks :
        /\ clean_run[r] = 2
        /\ clean_pc[r] = "host"
        /\ clean_arrived[r] = 2
        /\ CleanMemory(r) # <<clean_args[r].mem, clean_args[r].sync>>
        /\ clean_pc[s] = "barrier_2"
        /\ clean_run[s] = 1

\* every input of a cleaner call is empty
AllInputsEmpty(args) ==
    /\ args.clean_0_null \/ args.num_clean_int_0 = 0
    /\ args.clean_1_null \/ args.num_clean_int_1 = 0
    /\ ~args.with_sync \/ args.expert_sync_info_null

\* what one call with arguments args has to leave in scratch region j
CleanedRegion(args, j) ==
    LET null == IF j = 0 THEN args.clean_0_null ELSE args.clean_1_null
        n == IF j = 0 THEN args.num_clean_int_0 ELSE args.num_clean_int_1
    IN  [i \in CleanCells |-> IF ~null /\ i < n THEN 0 ELSE args.mem[j][i]]

\* C18: a cleaner call whose inputs are all empty launches no kernel, enters
\* no barrier and writes nothing; any other call zeroes exactly the first n
\* ints of each non-null region and leaves everything else as it was (the
\* extended variant also zeroes the ExpertSyncInfo slots it is given, but
\* for combined_x_ptr).
C18_CleanerNoOpWhenEmpty ==
    \A r \in Ranks :
        /\ AllInputsEmpty(clean_args[r]) =>
              /\ clean_arrived[r] = 0
              /\ clean_pc[r] \in {"host", "returned"}
              /\ CleanMemory(r) = <<clean_args[r].mem, clean_args[r].sync>>
        /\ (~AllInputsEmpty(clean_args[r]) /\ CleanedOnce(r)) =>
              /\ clean_arrived[r] >= 2
              /\ \A j \in 0 .. 1 : clean_mem[r][j] = CleanedRegion(clean_args[r], j)
              /\ \A e \in Blocks :
                    clean_sync[r][e] =
                        IF clean_args[r].with_sync /\ ~clean_args[r].expert_sync_info_null
                          THEN CleanSyncInfo(0, clean_args[r].sync[e].combined_x_ptr)
                          ELSE clean_args[r].sync[e]

\* C18 witness: both calls of a rank have returned without a barrier, the
\* first buffer non-null of length 0, the second null with a positive length
C18_Witness ==
    \E r \in Ranks :
        /\ clean_pc[r] = "returned"
        /\ clean_arrived[r] = 0
        /\ ~clean_args[r].clean_0_null /\ clean_args[r].num_clean_int_0 = 0
        /\ clean_args[r].clean_1_null /\ clean_args[r].num_clean_int_1 > 0
        /\ clean_args[r].with_sync

\* the parameter errors: num_topk outside [1, kNumMaxTopK], a hidden size
\* that is not aligned, a non-positive count
ParameterError(args) ==
    \/ args.num_topk < 1 \/ args.num_topk > kNumMaxTopK
    \/ args.hidden % 128 # 0
    \/ args.num_tokens <= 0
    \/ args.num_experts <= 0

\* C19: both host wrappers reject a parameter error before the launch: a
\* call with num_topk outside [1, 9], an unaligned hidden size or a
\* non-positive count never launches the kernel.
C19_ParameterErrorsRejectedOnHost ==
    (host_outcome \in {"launched", "rejected"} /\ ParameterError(host_call)) =>
        host_outcome = "rejected"

\* the messages of slots 0 .. n - 1 of the section of the pair of block b of rank r
PairMessages(r, b, n) ==
    { i \in 0 .. (n - 1) : rdma_recv_x[r][MsgOffset(b \div num_ranks, PairSrc(b), i)].data # 0 }

\* C20: the count of a pair (expert e, source rank r) is posted only after
\* rank r has issued every message write for e of that dispatch (and, on the
\* P2P path, after the messages are in the owner's buffer), and a receiver
\* that has observed the count n of its pair finds the n messages in the
\* pair's section.
C20_CountAfterMessages ==
    /\ [][\A r \in Ranks : \A e \in Blocks :
            (block_pc[r][e] = "count" /\ block_pc'[r][e] = "posted") =>
                /\ SendEntries(r, e) \subseteq sent[r]
                /\ HasP2P(r, e \div num_local_experts) =>
                      Cardinality(PairMessages(e \div num_local_experts,
                                               (e % num_local_experts) * num_ranks + r,
                                               Cardinality(SendEntries(r, e))))
                          = Cardinality(SendEntries(r, e))]_vars
    /\ [](\A r \in Ranks : \A b \in Blocks :
            (OnePost /\ Observed(r, b)) =>
                Cardinality(PairMessages(r, b, num_recv_tokens[r][b])) = num_recv_tokens[r][b])

\* C20 witness: rank 1 has observed the count 2 of the pair (expert 1, rank 0),
\* delivered over IBGDA, while its own count for expert 0 is still in flight
C20_Witness ==
    /\ cfg.family = "ibgda"
    /\ Observed(1, 0)
    /\ num_recv_tokens[1][0] = 2
    /\ Cardinality(PairMessages(1, 0, 2)) = 2
    /\ CountInFlight(1, 0, 1)

\* the lane of block b of rank r is in its spin on rdma_recv_count
Polling(r, b) == stage[r] = "recv" /\ block_pc[r][b] = "poll"

\* C21: when a block of any rank is polling rdma_recv_count for its pair
\* (l, s), after the second grid-wide sync of its own grid, the sender s of
\* the pair, on whichever rank it runs, has no count send for the pair ahead
\* of it any more.
C21_CountsPostedBeforePolling ==
    SingleIteration =>
        \A r \in Ranks : \A b \in Blocks :
            Polling(r, b) => ~WillPostCount(PairSrc(b), PairExpert(r, b))

\* the sender of the pair of block b of rank r has issued every message of
\* the pair
PayloadIssued(r, b) ==
    SendEntries(PairSrc(b), PairExpert(r, b)) \subseteq sent[PairSrc(b)]

\* a receiver has left its spin with a count while a message of the pair is
\* still to be issued
CountOutrunsPayload ==
    \E r \in Ranks : \E b \in Blocks : Observed(r, b) /\ ~PayloadIssued(r, b)

\* C22: with the grid-wide sync after the send phase in place or left out
\* (DEEPEP_SKIP_GRID_SYNC), no receiver observes the count of a pair before
\* the sender has issued every message of the pair, and the count it decodes
\* is the number of those messages: the messages of a pair and its count
\* come from the same block, in program order across the block-wide
\* barriers, so the guarantee does not rest on the grid-wide sync.
C22_CountFollowsPayloadWithoutGridSync ==
    \A r \in Ranks : \A b \in Blocks :
        Observed(r, b) =>
            /\ PayloadIssued(r, b)
            /\ num_recv_tokens[r][b]
                  = Cardinality(SendEntries(PairSrc(b), PairExpert(r, b)))
            /\ \A i \in 0 .. (num_recv_tokens[r][b] - 1) :
                  rdma_recv_x[r][MsgOffset(b \div num_ranks, PairSrc(b), i)] # ZeroMsg

\* C22 witness: rank 1 has decoded the count 1 of a pair of rank 0 while
\* another block of rank 0 is still in its send loop
C22_Witness ==
    \E b \in Blocks :
        /\ DEEPEP_SKIP_GRID_SYNC
        /\ Observed(1, b)
        /\ PairSrc(b) = 0
        /\ num_recv_tokens[1][b] = 1
        /\ stage[0] = "send"
        /\ \E o \in Blocks : block_pc[0][o] = "run" /\ ~(SendEntries(0, o) \subseteq sent[0])

\* C22 as stated: with the grid-wide sync after the send phase left out, a
\* run of the dispatch comes to a state in which a receiver has observed a
\* non-zero count of a pair while a message of the pair is not issued yet.
C22_SyncElidedCountOutrunsPayload == DEEPEP_SKIP_GRID_SYNC => <>CountOutrunsPayload

\* the pair of global expert e and source rank s: the rank that owns e and
\* the block of that rank that receives the pair
PairOwner(e) == e \div num_local_experts
PairBlock(e, s) == (e % num_local_experts) * num_ranks + s

\* the states of a pair, numbered in the order of the protocol
PairStates ==
    [Idle |-> 0, Sending |-> 1, CountPosted |-> 2, CountObserved |-> 3,
     Draining |-> 4, Done |-> 5]

\* where the receiving block of the pair stands, when its rank processes
ReceiverAt(e, s) ==
    LET r == PairOwner(e) IN
    IF ~should_process(r) THEN "none"
    ELSE IF DispatchDone(r) THEN "done"
    ELSE IF stage[r] \in {"recv", "fatal"} THEN block_pc[r][PairBlock(e, s)]
    ELSE "none"

\* the furthest state the pair (e, s) has reached
PairState(e, s) ==
    CASE ReceiverAt(e, s) = "done" -> PairStates.Done
      [] ReceiverAt(e, s) = "drain" -> PairStates.Draining
      [] ReceiverAt(e, s) = "observed" -> PairStates.CountObserved
      [] OTHER ->
           IF Posted(s, e) THEN PairStates.CountPosted
           ELSE IF atomic_counter_per_expert[s][e * num_ranks + s] > 0
                  THEN PairStates.Sending
                  ELSE PairStates.Idle

\* the part of the packed output that belongs to the pair (e, s)
PairOutput(e, s) ==
    [i \in 0 .. (num_max_dispatch_tokens_per_rank - 1) |->
        LET j == MsgOffset(e % num_local_experts, s, i)
        IN  <<packed_recv_x[PairOwner(e)][j], packed_recv_src_info[PairOwner(e)][j]>>]

\* C23: in every step of one dispatch, every pair (expert, src_rank) stays in
\* its state or moves forward in the order Idle, Sending, CountPosted,
\* CountObserved, Draining, Done: CountObserved is entered from CountPosted
\* and only with the count posted, packed_recv_count of the pair changes only
\* in CountObserved, Draining is entered from CountObserved, the packed
\* output of the pair changes only in Draining, Done is entered from
\* Draining, or from CountObserved by a pair without tokens, and Sending is
\* passed over only by a pair without tokens.
C23_PairStatesInOrder ==
    [][\A e \in Blocks : \A s \in Ranks :
          \A before \in {PairState(e, s)} : \A after \in {PairState(e, s)'} :
          LET r == PairOwner(e)
              b == PairBlock(e, s)
          IN  /\ after >= before
              /\ after >= PairStates.CountObserved => Posted(s, e)'
              /\ (after = PairStates.CountPosted /\ before = PairStates.Idle) =>
                    SendEntries(s, e) = {}
              /\ after = PairStates.CountObserved =>
                    before \in {PairStates.CountPosted, PairStates.CountObserved}
              /\ packed_recv_count'[r][b] # packed_recv_count[r][b] =>
                    before = PairStates.CountObserved
              /\ after = PairStates.Draining =>
                    before \in {PairStates.CountObserved, PairStates.Draining}
              /\ (<<packed_recv_x, packed_recv_src_info>>' # <<packed_recv_x, packed_recv_src_info>>
                    /\ PairOutput(e, s)' # PairOutput(e, s)) => before = PairStates.Draining
              /\ after = PairStates.Done =>
                    \/ before \in {PairStates.Draining, PairStates.Done}
                    \/ before = PairStates.CountObserved /\ num_recv_tokens[r][b] = 0
      ]_vars

\* C23 witness: a pair that crosses ranks has reached Done with two messages
\* copied out while another pair of the same owner is still CountPosted
C23_Witness ==
    \E e \in Blocks : \E s \in Ranks : \E o \in Ranks :
        /\ s # PairOwner(e)
        /\ PairState(e, s) = PairStates.Done
        /\ num_recv_tokens[PairOwner(e)][PairBlock(e, s)] = 2
        /\ packed_recv_count[PairOwner(e)][PairBlock(e, s)] = 2
        /\ PairOutput(e, s)[1][2] # PairOutput(e, s)[0][2]
        /\ PairState(e, o) = PairStates.CountPosted

\* rank r has returned from the dispatch with every pair it receives Done
DispatchComplete(r) ==
    /\ DispatchDone(r)
    /\ fatal[r] = "none"
    /\ should_process(r) =>
          \A e \in Blocks : \A s \in Ranks :
              PairOwner(e) = r => PairState(e, s) = PairStates.Done

DispatchLaunched == host_call.wrapper = "dispatch" /\ host_outcome = "launched"

\* C30: for every call the dispatch wrapper accepts, the configuration it
\* picks is one warp group of 32 warps: num_warp_groups is at most
\* ceil(num_experts / num_device_sms), not at least, and
\* num_warp_groups * num_warps_per_group is at least num_topk + 1.
C30_DispatchWarpConfiguration ==
    DispatchLaunched =>
        LET wc == DispatchWarpConfig(host_call) IN
        /\ wc = <<1, 32>>
        /\ wc[1] <= ceil_div(host_call.num_experts, host_call.num_device_sms)
        /\ wc[1] * wc[2] >= host_call.num_topk + 1

\* C30 witness: an accepted call with more experts than SMs and the largest
\* top-k
C30_Witness ==
    /\ DispatchLaunched
    /\ host_call.num_experts = 80
    /\ host_call.num_device_sms = 2
    /\ host_call.num_topk = kNumMaxTopK
    /\ DispatchWarpConfig(host_call)[1] < ceil_div(host_call.num_experts, host_call.num_device_sms)

\* C30 as stated: num_warp_groups >= ceil(num_experts / num_device_sms) and
\* num_warp_groups * num_warps_per_group >= num_topk + 1 for every accepted
\* call.
C30_WarpGroupsCoverExperts ==
    DispatchLaunched =>
        LET wc == DispatchWarpConfig(host_call) IN
        /\ wc[1] >= ceil_div(host_call.num_experts, host_call.num_device_sms)
        /\ wc[1] * wc[2] >= host_call.num_topk + 1

\* the full dispatch launch (SEND|RECV) of rank r has returned
FullDispatchReturned(r) ==
    /\ cfg.calls = <<SEND_RECV>>
    /\ call_idx[r] > 1

\* the full combine launch (SEND|RECV) of rank r has returned
FullCombineReturned(r) ==
    /\ combine_calls[r] = <<SEND_RECV>>
    /\ combine_idx[r] = 1

\* the grid-wide syncs of the dispatch launch and of the combine launch of
\* rank r
DispatchGridSyncs(r) == grid_syncs[r][1]
CombineGridSyncs(r) == grid_syncs[r][Len(cfg.calls) + 1]

\* C28: in the default build a full dispatch launch (SEND|RECV) passes
\* exactly two grid-wide syncs and a full combine launch exactly five; a
\* grid-wide sync is passed by every block of the grid together.
C28_GridSyncsPerLaunch ==
    \A r \in Ranks :
        /\ FullDispatchReturned(r) => DispatchGridSyncs(r) = 2
        /\ FullCombineReturned(r) => CombineGridSyncs(r) = 5

\* C28 witness: both ranks have finished a full dispatch and a full combine
\* launch with tokens in flight
C28_Witness ==
    /\ \A r \in Ranks : FullDispatchReturned(r) /\ FullCombineReturned(r)
    /\ \E r \in Ranks : sent[r] # {}
    /\ \A r \in Ranks : grid_syncs[r] = <<2, 5>>

\* C28 as stated: three grid-wide syncs in a full dispatch launch and two in
\* a full combine launch.
C28_ThreeAndTwoGridSyncs ==
    \A r \in Ranks :
        /\ FullDispatchReturned(r) => DispatchGridSyncs(r) = 3
        /\ FullCombineReturned(r) => CombineGridSyncs(r) = 2

\* the blocks of the combine launch of rank r have validated safe_num_topk
Validated(r) == stage[r] = "reduce" \/ combine_idx[r] >= 1

CorruptionMessage == "safe_num_topk corrupted"

\* what the reduce loop leaves for token_idx when its block has forced
\* safe_num_topk to 1: the contribution of the one entry at topk_offset =
\* token_idx, with its weight
ForcedPartial(r, token_idx) ==
    LET expert == topk_idx[r][token_idx \div num_topk][token_idx % num_topk]
        weight == topk_weights[r][token_idx \div num_topk][token_idx % num_topk]
    IN  IF expert < 0 \/ expert \div num_local_experts # r THEN 0
        ELSE weight * SumOver([from_rank \in Ranks |->
                                  SlotValue(r, expert % num_local_experts, from_rank, token_idx)],
                              num_ranks)

\* no launch is stuck: some step is possible until every rank has left its
\* last launch
NotStuck == (ENABLED CombineNext) \/ (\A r \in Ranks : stage[r] = "exit")

\* C29: when the copy of num_topk a block of combine holds is out of range,
\* the block reduces its tokens with safe_num_topk = 1, thread 0 of block 0
\* logs the violation when the copy of block 0 is out of range (the other
\* blocks force the value without a message), and the launch neither aborts
\* nor stops short of a grid-wide sync: it passes all five and returns, and
\* no rank is left waiting.
C29_CorruptionGuard ==
    /\ NotStuck
    /\ \A r \in Ranks :
          /\ fatal[r] = "none"
          /\ Validated(r) => (CorruptionMessage \in diagnostics[r] <=> is_corrupted(r, 0))
          /\ (stage[r] = "reduce" /\ reduce_idx[r] = 0) =>
                \A t \in Tokens :
                    is_corrupted(r, ReduceBlock(t)) => fp32_workspace[r][t] = ForcedPartial(r, t)
          /\ combine_idx[r] = 1 => CombineGridSyncs(r) = 5

\* C29 witness: both ranks have returned from combine; on rank 0 only block 1
\* read a damaged value, on rank 1 block 0 read 0 and block 1 read 33
C29_Witness ==
    /\ cfg.family = "corrupt"
    /\ \A r \in Ranks : stage[r] = "exit" /\ combine_idx[r] = 1
    /\ shared_num_topk[0] = [b \in Blocks |-> IF b = 1 THEN 33 ELSE num_topk]
    /\ shared_num_topk[1] = [b \in Blocks |-> IF b = 1 THEN 33 ELSE 0]
    /\ diagnostics[0] = {} /\ diagnostics[1] = {CorruptionMessage}
    /\ \A r \in Ranks : CombineGridSyncs(r) = 5

\* C29 as stated: every block that finds its copy out of range logs the
\* violation, forces the value to 1 and takes part in every grid-wide sync.
C29_EveryCorruptedBlockLogs ==
    \A r \in Ranks :
        /\ fatal[r] = "none"
        /\ Validated(r) =>
              \A b \in Blocks : is_corrupted(r, b) => CorruptionMessage \in diagnostics[r]
        /\ combine_idx[r] = 1 => CombineGridSyncs(r) = 5

\* a spin of rank r has used up its retry budget
DispatchBudgetExhausted(r) == fatal[r] = "count_timeout"
CombineBudgetExhausted(r) == "GPU HANG DETECTED" \in diagnostics[r]

\* C27: every spin loop of the kernels has a bounded retry budget, and a rank
\* whose spin has exhausted its budget is in the fatal error state instead
\* of spinning on.
C27_SpinBudgetsEndInFatal ==
    \A r \in Ranks :
        (DispatchBudgetExhausted(r) \/ CombineBudgetExhausted(r)) => stage[r] = "fatal"

\* the grid of rank r has passed the sync that follows the waits and reads
\* expert outputs for the reduction
ReductionStarted(r) == stage[r] \in {"reduce_local", "reduce"}

\* the experts rank r owns
OwnedExperts(r) == { e \in Blocks : e \div num_local_experts = r }

\* total_received >= total_expected in ExpertSyncInfo[e] of rank r
TotalsComplete(r, e) ==
    expert_sync_info_buffer[r][e].total_received_tokens
        >= expert_sync_info_buffer[r][e].total_expected_tokens

\* C26: no block of rank r reads expert outputs for the reduction before,
\* for every expert e of the rank that some rank dispatched tokens to,
\* total_received >= total_expected holds in ExpertSyncInfo[e] or, when that
\* buffer is absent, rdma_recv_flag[e_local] is non-zero; the block of an
\* expert that received no tokens does not wait.
C26_ReductionAfterWaits ==
    \A r \in Ranks : ReductionStarted(r) =>
        \A e \in OwnedExperts(r) :
            will_receive_data(r, e % num_local_experts) =>
                IF HasSyncInfo THEN TotalsComplete(r, e)
                               ELSE rdma_recv_flag[r][e % num_local_experts] # 0

\* C26 witness: without ExpertSyncInfo, rank 1 reduces after the flag of its
\* expert was raised for tokens that rank 0 dispatched to it
C26_Witness ==
    /\ ~HasSyncInfo
    /\ stage[1] = "reduce"
    /\ unpack2_x(packed_recv_layout_range[1][0]) > 0
    /\ rdma_recv_flag[1][0] > 0

\* C26 as stated: the reduction of a rank does not start until, for every
\* expert e the rank owns, total_received >= total_expected holds in
\* ExpertSyncInfo[e] or, when that buffer is absent, rdma_recv_flag[e_local] > 0.
C26_EveryOwnerWaits ==
    \A r \in Ranks : ReductionStarted(r) =>
        \A e \in OwnedExperts(r) :
            IF HasSyncInfo THEN TotalsComplete(r, e)
                           ELSE rdma_recv_flag[r][e % num_local_experts] > 0

\* block b of rank r has left the send phase of a full launch of combine
SendPassed(r, b) == combine_calls[r] = <<SEND_RECV>> /\ block_pc[r][b] = "flagged"

\* the tokens block b of rank r has to return
TokensToSend(r, b) == unpack2_x(packed_recv_layout_range[r][CombineLayoutIdx(b)])

\* every payload write of block b of rank r is in the buffer of its
\* destination
PayloadWritten(r, b) ==
    LET dst_rank == b \div num_local_experts
        local_expert_idx == b % num_local_experts
        offset == unpack2_y(packed_recv_layout_range[r][CombineLayoutIdx(b)])
    IN  \A i \in 0 .. (TokensToSend(r, b) - 1) :
            i < num_max_dispatch_tokens_per_rank =>
                LET from == CombineSrcSlot(dst_rank, local_expert_idx, offset, i)
                IN  combine_recv_x[dst_rank][CombineDstSlot(r, local_expert_idx, offset, i)]
                        = [src_idx |-> packed_recv_src_info[r][from],
                           data |-> ExpertOutput(r, from)]

\* C25: in combine send each block with payload to return posts, once its
\* warps have finished their payload writes, exactly one atomic add of 1 to
\* the rdma_recv_flag of its destination, and no post precedes a payload
\* write of the block.
C25_OneFlagAfterPayload ==
    \A r \in Ranks : \A b \in Blocks :
        /\ (SendPassed(r, b) /\ TokensToSend(r, b) > 0) => flag_posts[r][b] = 1
        /\ flag_posts[r][b] > 0 => PayloadWritten(r, b)

\* block b of rank r holds a reservation for its pair in the receive phase
\* and is about to copy the messages of the pair
Draining(r, b) == stage[r] = "recv" /\ block_pc[r][b] = "drain"

\* C31: in dispatch receive, for every pair and every i in [0, n), the
\* source-token index and the payload of the i-th received message are stored
\* at the same slot begin + i of the pair's section, the slot that
\* layout_range = pack(n, begin) announces to combine, for every value of
\* begin returned by the reservation.
C31_SrcInfoAndPayloadAtAnnouncedSlot ==
    \A r \in Ranks : \A b \in Blocks :
        Draining(r, b) =>
            \A layout \in {packed_recv_layout_range[r][b]} :
                /\ unpack2_x(layout) = num_recv_tokens[r][b]
                /\ unpack2_y(layout) = recv_token_begin_idx[r][b]
                /\ \A i \in 0 .. (unpack2_x(layout) - 1) :
                      /\ PayloadSlot(recv_token_begin_idx[r][b], i) = unpack2_y(layout) + i
                      /\ SrcInfoSlot(recv_token_begin_idx[r][b], i) = unpack2_y(layout) + i

\* the count of every pair whose sender is rank s stands in the count buffer
\* of its destination or is on its way there
CountsPosted(s) ==
    \A e \in Blocks :
        \/ rdma_recv_count[e \div num_local_experts][(e % num_local_experts) * num_ranks + s] # 0
        \/ CountInFlight(s, e \div num_local_experts, (e % num_local_experts) * num_ranks + s)

\* C32: counts are sent regardless of phase: a rank that has returned from a
\* dispatch call, a call with phases = RECV included, has posted its
\* per-expert counts, and no receiver runs out of its wait for a count unless
\* the launch of a rank was aborted for another reason.
C32_CountsSentRegardlessOfPhase ==
    \A r \in Ranks :
        /\ call_idx[r] > 1 => CountsPosted(r)
        /\ fatal[r] = "count_timeout" =>
              \E s \in Ranks : fatal[s] \notin {"none", "count_timeout"}

\* the callers run two dispatch iterations with the cleaner between them
TwoIterations == cfg.family \in IterationFamilies

\* rank r is in its second dispatch iteration or has returned from it
InSecondIteration(r) == TwoIterations /\ call_idx[r] >= 2

\* C33: over two consecutive dispatch iterations on all ranks with the
\* cleaner run between them, the second iteration behaves like the first: it
\* fails no assertion, and when it is over the slot indices reserved for each
\* pair (e, r) have started again at 0 (the counter of the pair stands at the
\* number of reservations of the second iteration), the value in
\* rdma_recv_count of the pair decodes to the number of tokens sent in the
\* second iteration only, and packed_recv_count of the pair equals that number.
C33_SecondIterationLikeFirst ==
    /\ \A r \in Ranks : InSecondIteration(r) => fatal[r] = "none"
    /\ (TwoIterations /\ \A r \in Ranks : DispatchDone(r)) =>
          \A e \in Blocks : \A r \in Ranks :
              \A n \in {Cardinality(Reservations(r, e))} :
                  /\ atomic_counter_per_expert[r][e * num_ranks + r] = n
                  /\ DecodeCount(rdma_recv_count[e \div num_local_experts]
                                                [(e % num_local_experts) * num_ranks + r]) = n
                  /\ packed_recv_count[e \div num_local_experts]
                                      [(e % num_local_experts) * num_ranks + r] = n

\* rank r has passed the grid-wide sync that ends its send phase
SendPhaseOver(r) == stage[r] = "count"

\* C34: at the end of a dispatch send phase, total_expected_tokens and
\* expected_tokens_per_rank[rank] of ExpertSyncInfo[e] on the sending rank
\* equal the number of slot reservations the rank made for expert e, under
\* every interleaving of the zeroing of the array by block 0 with the atomic
\* increments of the other blocks.
C34_ExpectedEqualsReservations ==
    \A r \in Ranks :
        (HasSyncInfo /\ SendPhaseOver(r)) =>
            \A e \in Blocks :
                \A n \in {Cardinality(Reservations(r, e))} :
                    /\ expert_sync_info_buffer[r][e].total_expected_tokens = n
                    /\ expert_sync_info_buffer[r][e].expected_tokens_per_rank[r] = n

\* rank r is inside a dispatch call that has the RECV phase only
InRecvOnlyCall(r) ==
    /\ call_idx[r] <= Len(cfg.calls)
    /\ phases(r) = LOW_LATENCY_RECV_PHASE

\* C35: a dispatch call with phases = RECV leaves every ExpertSyncInfo entry
\* of its rank unchanged: no step of such a call changes the array, so the
\* expected-token counts of an earlier SEND-only call are still there when
\* combine reads them.
C35_RecvOnlyKeepsSyncInfo ==
    [][\A r \in Ranks :
          InRecvOnlyCall(r) => expert_sync_info_buffer'[r] = expert_sync_info_buffer[r]]_vars

\* the ranks of the launches
RankIds == 0 .. 1

\* the blocks of the launches
BlockIds == 0 .. 1

\* the lane of block expert_idx of rank r is in the wait of the flag fallback:
\* the block belongs to an expert of its rank whose layout_range row holds
\* tokens, and there is no ExpertSyncInfo buffer
FlagWait(r, expert_idx) ==
    /\ r \in Ranks /\ expert_idx \in Blocks
    /\ ~HasSyncInfo
    /\ stage[r] = "combine"
    /\ block_pc[r][expert_idx] = "flagged"
    /\ expert_idx \div num_local_experts = r
    /\ will_receive_data(r, expert_idx % num_local_experts)

\* the grid of rank r has passed the grid-wide sync that follows the waits
PastWaitSync(r) == r \in Ranks /\ stage[r] # "combine"

\* C37: in combine without ExpertSyncInfo, whenever an owning block waits on
\* rdma_recv_flag[l] because its layout_range row l has a non-zero count, a
\* sender block posts an increment to that flag in the same iteration: with
\* the grids kept running the wait ends and the kernel reaches its grid-wide
\* sync.
C37_FlagWaitTerminates ==
    \A r \in RankIds : \A expert_idx \in BlockIds :
        FlagWait(r, expert_idx) ~> PastWaitSync(r)

\* block b of rank r stands at a grid-wide sync of its launch: after the send
\* loops of dispatch, after the count send, or after the wait of combine
BlockAtSync(r, b) ==
    \/ /\ stage[r] = "send" /\ ~DEEPEP_SKIP_GRID_SYNC
       /\ BlockStarted(r, b)
       /\ SendEntries(r, b) \subseteq sent[r]
    \/ stage[r] = "count" /\ block_pc[r][b] = "posted"
    \/ stage[r] = "combine" /\ block_pc[r][b] = "flagged" /\ BlockWaitDone(r, b)

\* a block of the grid of rank r waits at a grid-wide sync
GridWaitsAtSync(r) == r \in Ranks /\ \E b \in Blocks : BlockAtSync(r, b)

\* C36: within one launch every block of the grid executes the same sequence
\* of grid-wide syncs: when a block has reached a grid-wide sync of dispatch
\* or combine, no other block of the launch has returned, skipped the sync or
\* is left in a spin forever, so with the grids kept running the grid passes
\* the sync.
C36_EveryBlockReachesEverySync ==
    \A r \in RankIds : GridWaitsAtSync(r) ~> ~GridWaitsAtSync(r)

(***************************************************************************)
(* The scale factors of FP8 dispatch. A message carries one scale per      *)
(* group of kNumPerChannels elements of the token; the receive phase       *)
(* stores them in packed_recv_x_scales. The build flag kUseUE8M0 chooses   *)
(* between float scales and uint8 scales packed four to a word.            *)
(***************************************************************************)
kHidden == combine_hidden
kNumPerChannels == 128
num_scales == kHidden \div kNumPerChannels

\* sizeof(packed_t) / sizeof(scale_t)
num_elems_per_pack(kUseUE8M0) == IF kUseUE8M0 THEN 4 ELSE 1

\* align(num_scales, sizeof(float) / sizeof(scale_t))
num_aligned_scales(kUseUE8M0) ==
    ceil_div(num_scales, num_elems_per_pack(kUseUE8M0)) * num_elems_per_pack(kUseUE8M0)

\* offset, in scales, of the region of local expert local_expert_idx
recv_x_scales(local_expert_idx, kUseUE8M0) ==
    local_expert_idx * num_ranks * num_max_dispatch_tokens_per_rank
        * num_aligned_scales(kUseUE8M0)

\* where lane lane_id stores its scale of message i of a pair whose
\* reservation begins at begin_idx
ScaleOffset(local_expert_idx, begin_idx, i, lane_id, kUseUE8M0) ==
    LET token_idx == begin_idx + i
        token_stride == num_elems_per_pack(kUseUE8M0)
        pack_stride == num_ranks * num_max_dispatch_tokens_per_rank
                          * num_elems_per_pack(kUseUE8M0)
        pack_idx == lane_id \div num_elems_per_pack(kUseUE8M0)
        elem_idx == lane_id % num_elems_per_pack(kUseUE8M0)
    IN  recv_x_scales(local_expert_idx, kUseUE8M0)
            + token_idx * token_stride + pack_idx * pack_stride + elem_idx

\* the locations of packed_recv_x_scales that hold the scales of message i of
\* the pair of block b of rank r
ScaleLocations(r, b, i, kUseUE8M0) ==
    { ScaleOffset(b \div num_ranks, recv_token_begin_idx[r][b], i, lane_id, kUseUE8M0) :
        lane_id \in 0 .. (num_scales - 1) }

\* block b of rank r has reserved the slots of the messages of its pair in
\* this call
Receives(r, b) ==
    /\ stage[r] = "recv"
    /\ block_pc[r][b] \in {"drain", "done"}
    /\ num_recv_tokens[r][b] > 0

\* the messages <<block, i>> rank r receives in this call
ReceivedMsgs(r) ==
    { m \in Blocks \X (0 .. (num_max_dispatch_tokens_per_rank - 1)) :
        Receives(r, m[1]) /\ m[2] < num_recv_tokens[r][m[1]] }

\* C38: in FP8 dispatch receive, the scales of two different received
\* messages of the same local expert (different source rank or different
\* slot) are written to disjoint locations of packed_recv_x_scales.
C38_ScalesOfMessagesDisjoint ==
    \A kUseUE8M0 \in BOOLEAN : \A r \in Ranks :
        \A m1, m2 \in ReceivedMsgs(r) :
            (m1 # m2 /\ m1[1] \div num_ranks = m2[1] \div num_ranks) =>
                ScaleLocations(r, m1[1], m1[2], kUseUE8M0)
                    \cap ScaleLocations(r, m2[1], m2[2], kUseUE8M0) = {}

(***************************************************************************)
(* The mode predicate as the combine kernel computes it from the shared    *)
(* copies of its parameters, with the integer division of C++.             *)
(***************************************************************************)
safe_num_local_experts(safe_num_ranks, safe_num_experts) ==
    safe_num_experts \div safe_num_ranks

combine_is_pure_ep_mode(safe_num_ranks, safe_num_experts) ==
    safe_num_ranks
        = safe_num_experts \div safe_num_local_experts(safe_num_ranks, safe_num_experts)

\* the host wrappers accept num_experts > 0, num_ranks > 0 and
\* num_experts % num_ranks == 0
MaxModeRanks == 8
MaxModeExperts == 64
ModeConfigs ==
    { c \in (1 .. MaxModeRanks) \X (1 .. MaxModeExperts) : c[2] % c[1] = 0 }

\* the launches of the model whose ranks hold disjoint batches (mixed mode)
DisjointBatches == ~cfg.full_batch

\* C39: the mode predicate distinguishes the two modes: it is false for some
\* configuration with num_experts a positive multiple of num_ranks, and a
\* launch whose ranks hold disjoint batches runs the mixed-mode paths.
C39_ModePredicateDistinguishes ==
    /\ \E c \in ModeConfigs : ~combine_is_pure_ep_mode(c[1], c[2])
    /\ DisjointBatches => ~is_pure_ep_mode

(***************************************************************************)
(* The fixed-length arrays of the kernels: the per-rank counters of an     *)
(* ExpertSyncInfo and the diagnostic arrays of dispatch, one entry per     *)
(* block.                                                                  *)
(***************************************************************************)
kSyncInfoRanks == 8
kDiagnosticBlocks == 1024

\* the values of the kernel parameter rank in the launches of one call: the
\* kernels index expected_tokens_per_rank and received_tokens_per_rank with it
LaunchRanks(args) == 0 .. (args.num_ranks - 1)

\* the values of sm_id = blockIdx.x with which the blocks of dispatch index
\* the diagnostic arrays; combine does not touch them
DiagnosticIndices(args) ==
    IF args.wrapper = "dispatch" THEN 0 .. (args.num_experts - 1) ELSE {}

\* C40: for every configuration accepted by the dispatch and combine host
\* wrappers, every access to expected_tokens_per_rank and
\* received_tokens_per_rank uses an index rank < 8, and every access to the
\* per-block diagnostic arrays uses a block index < 1024.
C40_FixedArraysIndexedInBounds ==
    host_outcome = "launched" =>
        /\ \A rank \in LaunchRanks(host_call) : rank < kSyncInfoRanks
        /\ \A sm_id \in DiagnosticIndices(host_call) : sm_id < kDiagnosticBlocks
====
